---- MODULE Spec2Model ----
(***************************************************************************)
(* wAIrrenbuffett: the advisor (ai_advisor.py) and the projector           *)
(* (financial_projections.py) as a state machine over one request.         *)
(*                                                                         *)
(* Numbers.  Python floats are modelled as fixed-point integers:           *)
(*   - profile money is whole dollars;                                     *)
(*   - an unrounded money value is an integer count of 1/Scale dollar;     *)
(*   - a value emitted through round(x, 2) is an integer count of cents;   *)
(*   - allocation percentages are whole percents, the breakdown emitted    *)
(*     through round(x, 1) is an integer count of tenths of a percent;     *)
(*   - a stock score is an integer (50.0 plus whole adjustments);          *)
(*   - beta is in hundredths, a dividend yield in 1/YieldScale, pe_ratio   *)
(*     a whole number, market_cap in billions; the yield the dividend      *)
(*     projection carries from year to year is in 1/FineYield.             *)
(* A stock record is a dict: a key it lacks is a field the record lacks,   *)
(* and the value of beta, dividend_yield, pe_ratio or market_cap is <<>>   *)
(* for None and <<v>> for the number v.                                    *)
(* Every float multiplication or division is the exact result rounded to   *)
(* the model's resolution (half to even, as IEEE does at its own), so an   *)
(* emitted value can differ from the program's in its last digit where the *)
(* exact value lies within the resolution of a rounding boundary.          *)
(***************************************************************************)
EXTENDS Integers, Sequences, FiniteSets, TLC

VARIABLES
    pc,               \* the caller's position (main.py run_interactive_mode)
    advisor,          \* AIAdvisor instance: use_ollama, ollama_client
    profile,          \* UserProfile
    stock_data,       \* candidate list handed to generate_stock_recommendations
    num_picks,        \* its num_picks argument
    years,            \* the years argument of project_*: <<>> is None, <<n>> is n
    analysis,         \* result of analyze_profile
    recommendations,  \* result of generate_stock_recommendations
    net_worth_proj,   \* result of project_net_worth
    income_proj,      \* result of project_income
    dividend_proj,    \* result of project_dividends
    portfolio_proj,   \* result of project_portfolio_returns
    retirement,       \* result of calculate_retirement_readiness
    summary,          \* result of generate_summary
    fetch             \* the ticker loop of run_interactive_mode: all_stocks,
                      \* its position, fetch_errors, the tickers that fail

vars == <<pc, advisor, profile, stock_data, num_picks, years, analysis,
          recommendations, net_worth_proj, income_proj, dividend_proj,
          portfolio_proj, retirement, summary, fetch>>

\* Python's None where a record is expected, and a result not yet computed.
None == [py |-> "None"]
Unset == [status |-> "unset"]

\* the ticker loop of a caller that fetches nothing
NoFetch ==
    [all_stocks |-> <<>>, position |-> 0, fetch_errors |-> 0,
     unavailable |-> {}]

\* A call has raised: its result holds the exception instead of a value.
\* Nothing in main.py catches it, so the run ends there.
Raised ==
    \/ analysis.status \notin {"unset", "ok"}
    \/ recommendations.status \notin {"unset", "ok"}
    \/ retirement.status \notin {"unset", "ok"}
    \/ summary.status \notin {"unset", "ok"}

----------------------------------------------------------------------------
\* Arithmetic helpers

Min(a, b) == IF a < b THEN a ELSE b
Max(a, b) == IF a > b THEN a ELSE b
Abs(a) == IF a < 0 THEN -a ELSE a

\* n/d (n >= 0, d > 0) rounded to the nearest integer, ties to even.
RoundHalfEvenNat(n, d) ==
    LET q == n \div d
        r == n % d
    IN  IF 2 * r > d \/ (2 * r = d /\ q % 2 = 1) THEN q + 1 ELSE q

\* round(): n/d rounded to the nearest integer, ties to even, sign-symmetric.
RoundHalfEven(n, d) ==
    IF n >= 0 THEN RoundHalfEvenNat(n, d) ELSE -RoundHalfEvenNat(-n, d)

RECURSIVE Pow2Mod(_, _)
\* 2^k mod m
Pow2Mod(k, m) == IF k = 0 THEN 1 % m ELSE (2 * Pow2Mod(k - 1, m)) % m

RECURSIVE Pow2(_)
Pow2(k) == IF k = 0 THEN 1 ELSE 2 * Pow2(k - 1)

RECURSIVE Binade20(_, _)
\* the largest e >= 0 with 20 * 2^e <= s, for s >= 20: the binary exponent of s/20
Binade20(s, e) == IF 20 * Pow2(e + 1) <= s THEN Binade20(s, e + 1) ELSE e

\* The sign of fl(s * 0.05) - s/20 for the IEEE double product of an integer
\* 20 <= s by the double nearest 0.05, which is 1/20 + 1/(5 * 2^56).  In units
\* of the product's ulp 2^-k (k = 52 - e) the exact product is
\* N/5 + s/(5 * 2^m) with N = s * 2^(k-2) and m = 56 - k; it is rounded to the
\* nearest integer, ties to even.
FloatSide005(s) ==
    LET e == Binade20(s, 0)
        k == 52 - e
        m == 56 - k
        r == (s * Pow2Mod(k - 2, 5)) % 5
        qodd == ((s * Pow2Mod(k - 2, 10)) % 10) >= 5
        num == 2 * (r * Pow2(m) + s)
        den == 5 * Pow2(m)
        up == num > den \/ (num = den /\ qodd)
    IN  IF up THEN 1 ELSE IF r = 0 THEN 0 ELSE -1

\* round(s * 0.05, 1) in tenths: the nearest tenth to the double product.
\* Only when the product is exactly representable is the tie broken to even.
RoundTenths005(s) ==
    LET q == (5 * s) \div 10
        r == (5 * s) % 10
        side == FloatSide005(s)
    IN  IF r # 5 THEN RoundHalfEven(5 * s, 10)
        ELSE IF side > 0 THEN q + 1
        ELSE IF side < 0 THEN q
        ELSE RoundHalfEven(5 * s, 10)

----------------------------------------------------------------------------
\* AIAdvisor (ai_advisor.py)

\* mutant: the adjustments are -10 and +10
RiskAdjustment_ten(risk_tolerance) ==
    CASE risk_tolerance = "conservative" -> -10
      [] risk_tolerance = "moderate" -> 0
      [] risk_tolerance = "aggressive" -> 10
      [] OTHER -> 0

\* "risk_adjustments.get(profile.risk_tolerance, 0)"
RiskAdjustment(risk_tolerance) ==
    CASE risk_tolerance = "conservative" -> -15
      [] risk_tolerance = "moderate" -> 0
      [] risk_tolerance = "aggressive" -> 15
      [] OTHER -> 0

\* mutant: the clamp dropped
StockPercentage_unclamped(p) ==
    (110 - p.age) + RiskAdjustment(p.risk_tolerance)

StockPercentage(p) ==
    Max(30, Min(90, (110 - p.age) + RiskAdjustment(p.risk_tolerance)))

BondPercentage(stock_percentage) == 100 - stock_percentage

\* mutant: mid_cap takes 20% of the stocks instead of 25%
Breakdown_midcap20(stock_percentage) ==
    [large_cap     |-> RoundHalfEven(60 * stock_percentage, 10),
     mid_cap       |-> RoundHalfEven(20 * stock_percentage, 10),
     small_cap     |-> RoundHalfEven(10 * stock_percentage, 10),
     international |-> RoundTenths005(stock_percentage),
     bonds         |-> 10 * BondPercentage(stock_percentage)]

\* the breakdown, each entry round(x, 1) in tenths of a percent
Breakdown(stock_percentage) ==
    [large_cap     |-> RoundHalfEven(60 * stock_percentage, 10),
     mid_cap       |-> RoundHalfEven(25 * stock_percentage, 10),
     small_cap     |-> RoundHalfEven(10 * stock_percentage, 10),
     international |-> RoundTenths005(stock_percentage),
     bonds         |-> 10 * BondPercentage(stock_percentage)]

_determine_allocation(p) ==
    LET stock_percentage == StockPercentage(p)
    IN  [stocks    |-> stock_percentage,
         bonds     |-> BondPercentage(stock_percentage),
         breakdown |-> Breakdown(stock_percentage)]

CapitalPreservation ==
    "Capital Preservation - Focus on stable dividend stocks and bonds"
BalancedGrowth ==
    "Balanced Growth - Mix of growth and dividend stocks with some bonds"
AggressiveGrowth ==
    "Aggressive Growth - Focus on high-growth stocks and emerging sectors"
ConservativeGrowth ==
    "Conservative Growth - Blue-chip dividend stocks and bonds"
ModerateGrowth ==
    "Moderate Growth - Diversified portfolio with growth and value stocks"

\* mutant: the risk branch is taken first, the horizon rules after it
_determine_strategy_risk_first(p) ==
    IF p.risk_tolerance = "aggressive" THEN AggressiveGrowth
    ELSE IF p.years_to_retirement <= 5 THEN CapitalPreservation
    ELSE IF p.years_to_retirement <= 15 THEN BalancedGrowth
    ELSE IF p.risk_tolerance = "conservative" THEN ConservativeGrowth
    ELSE ModerateGrowth

_determine_strategy(p) ==
    IF p.years_to_retirement <= 5 THEN CapitalPreservation
    ELSE IF p.years_to_retirement <= 15 THEN BalancedGrowth
    ELSE IF p.risk_tolerance = "aggressive" THEN AggressiveGrowth
    ELSE IF p.risk_tolerance = "conservative" THEN ConservativeGrowth
    ELSE ModerateGrowth

\* The five checks of _assess_risk, in the code's order.  The two ratios are
\* compared exactly: d/i*100 > 40 iff 100*d > 40*i, and s/m < 3 iff s < 3*m,
\* for i > 0 and m > 0.
RiskFactors(p) ==
    <<p.annual_income < 50000,
      100 * p.total_debt > 40 * p.annual_income,
      p.current_savings < 3 * p.monthly_expenses,
      p.num_dependents > 0,
      p.years_to_retirement < 10>>

NumRiskFactors(p) ==
    Cardinality({i \in 1..5 : RiskFactors(p)[i]})

HighRisk ==
    "High Risk - Consider conservative investments and building emergency fund"
ModerateRisk == "Moderate Risk - Balance growth with stability"
LowRisk == "Low Risk - Good position for long-term growth investing"

\* mutant: High only above three factors
RiskLabel_above3(n) ==
    IF n > 3 THEN HighRisk
    ELSE IF n >= 1 THEN ModerateRisk
    ELSE LowRisk

RiskLabel(n) ==
    IF n >= 3 THEN HighRisk
    ELSE IF n >= 1 THEN ModerateRisk
    ELSE LowRisk

_assess_risk(p) == RiskLabel(NumRiskFactors(p))

\* mutant: the infinite value is rounded and reported like a number
YearsToDebtFree_inf(p) ==
    IF p.annual_income > 12 * p.monthly_expenses
    THEN [kind |-> "number",
          value |-> RoundHalfEven(100 * p.total_debt,
                                  p.annual_income - 12 * p.monthly_expenses)]
    ELSE [kind |-> "inf"]

\* years_to_debt_free: 'N/A' when monthly_income <= monthly_expenses
YearsToDebtFree(p) ==
    IF p.annual_income > 12 * p.monthly_expenses
    THEN [kind |-> "number",
          value |-> RoundHalfEven(100 * p.total_debt,
                                  p.annual_income - 12 * p.monthly_expenses)]
    ELSE [kind |-> "N/A"]

\* financial_health: percentages in hundredths, months in tenths
FinancialHealth(p) ==
    [savings_rate |->
        RoundHalfEven(10000 * (p.annual_income - 12 * p.monthly_expenses),
                      p.annual_income),
     debt_to_income_ratio |->
        RoundHalfEven(10000 * p.total_debt, p.annual_income),
     years_to_debt_free |-> YearsToDebtFree(p),
     emergency_fund_months |->
        RoundHalfEven(10 * p.current_savings, p.monthly_expenses)]

\* The divisions of analyze_profile and _assess_risk by annual_income and
\* monthly_expenses raise ZeroDivisionError on a zero denominator.
AnalysisRaises(p) == p.annual_income = 0 \/ p.monthly_expenses = 0

\* _get_llm_insights: the reply's text, "" when the call raises
LlmInsights(outcome) ==
    CASE outcome = "text" -> "insights"
      [] outcome = "empty" -> ""
      [] outcome = "raise" -> ""

\* mutant: _get_llm_insights without its try/except, the LLM's exception
\* leaves analyze_profile
analyze_profile_llm_uncaught(p, adv, llm) ==
    IF AnalysisRaises(p) THEN [status |-> "ZeroDivisionError"]
    ELSE IF adv.use_ollama /\ adv.ollama_client /\ llm = "raise"
    THEN [status |-> "Exception"]
    ELSE [status |-> "ok",
          financial_health |-> FinancialHealth(p),
          recommended_allocation |-> _determine_allocation(p),
          investment_strategy |-> _determine_strategy(p),
          risk_assessment |-> _assess_risk(p),
          ai_insights |-> IF adv.use_ollama /\ adv.ollama_client
                          THEN <<LlmInsights(llm)>> ELSE <<>>]

\* ai_insights is <<>> when the key is not set and <<text>> when it is
analyze_profile(p, adv, llm) ==
    IF AnalysisRaises(p) THEN [status |-> "ZeroDivisionError"]
    ELSE [status |-> "ok",
          financial_health |-> FinancialHealth(p),
          recommended_allocation |-> _determine_allocation(p),
          investment_strategy |-> _determine_strategy(p),
          risk_assessment |-> _assess_risk(p),
          ai_insights |-> IF adv.use_ollama /\ adv.ollama_client
                          THEN <<LlmInsights(llm)>> ELSE <<>>]

\* AIAdvisor(use_ollama): the import of ollama may fail
AdvisorInstances ==
    {[use_ollama |-> FALSE, ollama_client |-> FALSE],
     [use_ollama |-> TRUE, ollama_client |-> TRUE]}

LlmOutcomes == {"text", "empty", "raise"}

AnalyzeProfile ==
    /\ pc = "analyze"
    /\ \E llm \in (IF advisor.use_ollama THEN LlmOutcomes ELSE {"empty"}) :
          analysis' = analyze_profile(profile, advisor, llm)
    /\ pc' = "recommend"
    /\ UNCHANGED <<advisor, profile, stock_data, num_picks, years,
                   recommendations, net_worth_proj, income_proj,
                   dividend_proj, portfolio_proj, retirement, summary, fetch>>

----------------------------------------------------------------------------
\* Stock scoring (ai_advisor.py).  A stock record carries ticker, sector,
\* beta, dividend_yield, pe_ratio and market_cap; name and current_price are
\* copied through unread and are left out.

YieldScale == 1000 * 100

\* stock.get(key, default)
Get(stock, key, default) ==
    IF key \in DOMAIN stock THEN stock[key] ELSE <<default>>

\* the truth value Python gives an optional number: None and 0 are false
Truthy(o) == o # <<>> /\ o[1] # 0

\* stock.get('beta', 1.0)
Beta(stock) == Get(stock, "beta", 100)

\* str.lower() on the sector names in use
Lower(s) ==
    CASE s = "Technology" -> "technology"
      [] s = "TECHNOLOGY" -> "technology"
      [] s = "Healthcare" -> "healthcare"
      [] s = "Energy" -> "energy"
      [] OTHER -> s

SectorMatches(stock, p) ==
    Lower(stock.sector) \in {Lower(s) : s \in p.preferred_sectors}

RiskToleranceScore(stock, p) ==
    LET beta == Beta(stock)[1]
    IN  IF p.risk_tolerance = "conservative" THEN
            (IF beta < 80 THEN 10 ELSE IF beta > 120 THEN -10 ELSE 0)
            + (IF Truthy(stock.dividend_yield)
                  /\ 100 * stock.dividend_yield[1] > 2 * YieldScale
               THEN 15 ELSE 0)
        ELSE IF p.risk_tolerance = "aggressive" THEN
            (IF beta > 120 THEN 10 ELSE 0) + 5
        ELSE
            (IF 80 <= beta /\ beta <= 120 THEN 10 ELSE 0)
            + (IF Truthy(stock.dividend_yield)
                  /\ 1000 * stock.dividend_yield[1] > 15 * YieldScale
               THEN 10 ELSE 0)

PeScore(stock) ==
    LET pe_ratio == Get(stock, "pe_ratio", 0)
    IN  IF Truthy(pe_ratio) /\ 10 <= pe_ratio[1] /\ pe_ratio[1] <= 25
        THEN 10
        ELSE IF Truthy(pe_ratio) /\ pe_ratio[1] > 40 THEN -5
        ELSE 0

MarketCapScore(stock, p) ==
    LET market_cap == Get(stock, "market_cap", 0)[1]
    IN  IF market_cap > 100
        THEN (IF p.risk_tolerance = "conservative" THEN 10 ELSE 0)
        ELSE IF market_cap < 10
        THEN (IF p.risk_tolerance = "aggressive" THEN 5 ELSE 0)
        ELSE 0

\* How _score_stock ends: comparing a None beta or market_cap with a number
\* raises TypeError, stock['dividend_yield'] raises KeyError on a record
\* without the key (the aggressive branch never reads it).
ScoreStatus(stock, p) ==
    IF Beta(stock) = <<>> THEN "TypeError"
    ELSE IF p.risk_tolerance # "aggressive"
            /\ "dividend_yield" \notin DOMAIN stock THEN "KeyError"
    ELSE IF Get(stock, "market_cap", 0) = <<>> THEN "TypeError"
    ELSE "ok"

\* mutant: the score is capped at 100
_score_stock_capped(stock, p) ==
    Min(100, 50 + (IF SectorMatches(stock, p) THEN 15 ELSE 0)
                + RiskToleranceScore(stock, p)
                + PeScore(stock)
                + MarketCapScore(stock, p))

\* the score returned when ScoreStatus is "ok"
_score_stock(stock, p) ==
    50 + (IF SectorMatches(stock, p) THEN 15 ELSE 0)
       + RiskToleranceScore(stock, p)
       + PeScore(stock)
       + MarketCapScore(stock, p)

_generate_rationale(stock, p) ==
    LET reasons ==
            (IF SectorMatches(stock, p) THEN <<"sector">> ELSE <<>>)
            \o (IF Truthy(stock.dividend_yield)
                   /\ 100 * stock.dividend_yield[1] > 3 * YieldScale
                THEN <<"dividend">> ELSE <<>>)
            \o (IF Beta(stock)[1] < 90 /\ p.risk_tolerance = "conservative"
                THEN <<"volatility">> ELSE <<>>)
            \o (IF Beta(stock)[1] > 110 /\ p.risk_tolerance = "aggressive"
                THEN <<"growth">> ELSE <<>>)
            \o (IF Truthy(Get(stock, "pe_ratio", 0))
                   /\ 10 <= Get(stock, "pe_ratio", 0)[1]
                   /\ Get(stock, "pe_ratio", 0)[1] <= 20
                THEN <<"valuation">> ELSE <<>>)
    IN  IF reasons = <<>> THEN <<"fundamentals">> ELSE reasons

\* How building the recommendation dict ends: it reads
\* stock['dividend_yield'] and stock['pe_ratio'].
RecommendationStatus(stock) ==
    IF {"dividend_yield", "pe_ratio"} \subseteq DOMAIN stock THEN "ok"
    ELSE "KeyError"

\* the dict appended for one scored stock
Recommendation(stock, p) ==
    [ticker |-> stock.ticker, sector |-> stock.sector,
     dividend_yield |-> stock.dividend_yield, pe_ratio |-> stock.pe_ratio,
     score |-> _score_stock(stock, p),
     rationale |-> _generate_rationale(stock, p)]

RECURSIVE ScoreCandidates_noskip(_, _)
\* mutant: the None check dropped; subscripting None raises TypeError
ScoreCandidates_noskip(data, p) ==
    IF data = <<>> THEN [status |-> "ok", value |-> <<>>]
    ELSE IF Head(data) = None THEN [status |-> "TypeError"]
    ELSE IF ScoreStatus(Head(data), p) # "ok"
    THEN [status |-> ScoreStatus(Head(data), p)]
    ELSE IF RecommendationStatus(Head(data)) # "ok"
    THEN [status |-> RecommendationStatus(Head(data))]
    ELSE LET rest == ScoreCandidates_noskip(Tail(data), p)
         IN  IF rest.status # "ok" THEN rest
             ELSE [status |-> "ok",
                   value |-> <<Recommendation(Head(data), p)>> \o rest.value]

RECURSIVE ScoreCandidates_above_base(_, _)
\* mutant: a stock is kept when its score is above the base score
ScoreCandidates_above_base(data, p) ==
    IF data = <<>> THEN [status |-> "ok", value |-> <<>>]
    ELSE IF Head(data) = None THEN ScoreCandidates_above_base(Tail(data), p)
    ELSE IF ScoreStatus(Head(data), p) # "ok"
    THEN [status |-> ScoreStatus(Head(data), p)]
    ELSE IF _score_stock(Head(data), p) <= 50
    THEN ScoreCandidates_above_base(Tail(data), p)
    ELSE IF RecommendationStatus(Head(data)) # "ok"
    THEN [status |-> RecommendationStatus(Head(data))]
    ELSE LET rest == ScoreCandidates_above_base(Tail(data), p)
         IN  IF rest.status # "ok" THEN rest
             ELSE [status |-> "ok",
                   value |-> <<Recommendation(Head(data), p)>> \o rest.value]

RECURSIVE ScoreCandidates(_, _)
\* the scoring loop: None entries are skipped, a stock is kept when its
\* score is positive; the first exception ends the loop
ScoreCandidates(data, p) ==
    IF data = <<>> THEN [status |-> "ok", value |-> <<>>]
    ELSE IF Head(data) = None THEN ScoreCandidates(Tail(data), p)
    ELSE IF ScoreStatus(Head(data), p) # "ok"
    THEN [status |-> ScoreStatus(Head(data), p)]
    ELSE IF _score_stock(Head(data), p) <= 0
    THEN ScoreCandidates(Tail(data), p)
    ELSE IF RecommendationStatus(Head(data)) # "ok"
    THEN [status |-> RecommendationStatus(Head(data))]
    ELSE LET rest == ScoreCandidates(Tail(data), p)
         IN  IF rest.status # "ok" THEN rest
             ELSE [status |-> "ok",
                   value |-> <<Recommendation(Head(data), p)>> \o rest.value]

RECURSIVE InsertByScore_unstable(_, _)
\* mutant: x goes before its equals
InsertByScore_unstable(x, s) ==
    IF s = <<>> THEN <<x>>
    ELSE IF Head(s).score > x.score
    THEN <<Head(s)>> \o InsertByScore_unstable(x, Tail(s))
    ELSE <<x>> \o s

RECURSIVE InsertByScore_ascending(_, _)
\* mutant: reverse=True forgotten
InsertByScore_ascending(x, s) ==
    IF s = <<>> THEN <<x>>
    ELSE IF Head(s).score <= x.score
    THEN <<Head(s)>> \o InsertByScore_ascending(x, Tail(s))
    ELSE <<x>> \o s

RECURSIVE InsertByScore(_, _)
\* x inserted into s (sorted by score, descending) after every element whose
\* score is at least its own: list.sort(reverse=True) keeps equals in order
InsertByScore(x, s) ==
    IF s = <<>> THEN <<x>>
    ELSE IF Head(s).score >= x.score
    THEN <<Head(s)>> \o InsertByScore(x, Tail(s))
    ELSE <<x>> \o s

RECURSIVE SortFrom(_, _)
SortFrom(recs, acc) ==
    IF recs = <<>> THEN acc
    ELSE SortFrom(Tail(recs), InsertByScore(Head(recs), acc))

\* recommendations.sort(key=score, reverse=True)
SortByScoreDesc(recs) == SortFrom(recs, <<>>)

\* mutant: one more than num_picks is returned
Slice_offbyone(s, n) ==
    IF n >= 0 THEN SubSeq(s, 1, Min(n + 1, Len(s)))
    ELSE SubSeq(s, 1, Max(0, Len(s) + n))

\* s[:n]
Slice(s, n) ==
    IF n >= 0 THEN SubSeq(s, 1, Min(n, Len(s)))
    ELSE SubSeq(s, 1, Max(0, Len(s) + n))

generate_stock_recommendations(p, data, n) ==
    LET scored == ScoreCandidates(data, p)
    IN  IF scored.status # "ok" THEN scored
        ELSE [status |-> "ok",
              value |-> Slice(SortByScoreDesc(scored.value), n)]

GenerateStockRecommendations ==
    /\ pc = "recommend" /\ ~Raised
    /\ recommendations' =
          generate_stock_recommendations(profile, stock_data, num_picks)
    /\ pc' = "net_worth"
    /\ UNCHANGED <<advisor, profile, stock_data, num_picks, years, analysis,
                   net_worth_proj, income_proj, dividend_proj,
                   portfolio_proj, retirement, summary, fetch>>

----------------------------------------------------------------------------
\* FinancialProjector (financial_projections.py)

\* unrounded money is counted in 1/Scale dollar
Scale == 100 * 1000

\* x * n / d for x >= 0, rounded to the nearest integer (ties to even),
\* without forming x * n
MulDivNat(x, n, d) ==
    LET t == (x % d) * n
        f == (x \div d) * n + t \div d
        rem == t % d
    IN  IF 2 * rem > d \/ (2 * rem = d /\ f % 2 = 1) THEN f + 1 ELSE f

\* the float product x * (n/d) at the model's resolution
MulDiv(x, n, d) ==
    IF x >= 0 THEN MulDivNat(x, n, d) ELSE -MulDivNat(-x, n, d)

RECURSIVE FloorScaled(_, _, _)
\* floor(a / b * 10^k) and its remainder, by long division (a >= 0, b > 0)
FloorScaled(a, b, k) ==
    IF k = 0 THEN [q |-> a \div b, r |-> a % b]
    ELSE LET prev == FloorScaled(a, b, k - 1)
         IN  [q |-> prev.q * 10 + (prev.r * 10) \div b,
              r |-> (prev.r * 10) % b]

\* round(a / b * 10^k), ties to even, for b > 0
RatioScaled(a, b, k) ==
    LET f == FloorScaled(Abs(a), b, k)
        up == 2 * f.r > b \/ (2 * f.r = b /\ f.q % 2 = 1)
        v == IF up THEN f.q + 1 ELSE f.q
    IN  IF a >= 0 THEN v ELSE -v

\* round(x, 2) of an unrounded money value, in cents
Round2(x) == RoundHalfEven(x, Scale \div 100)

\* mutant: 0 is taken for None ("if not years")
Horizon_falsy(p, yrs) ==
    IF yrs = <<>> \/ yrs = <<0>> THEN Min(p.years_to_retirement, 30)
    ELSE yrs[1]

\* "if years is None: years = min(profile.years_to_retirement, 30)"
Horizon(p, yrs) ==
    IF yrs = <<>> THEN Min(p.years_to_retirement, 30) ELSE yrs[1]

\* mutant: the lowest estimate is the default of the lookup
ExpectedReturnPct_default_low(risk_tolerance) ==
    CASE risk_tolerance = "conservative" -> 5
      [] risk_tolerance = "moderate" -> 7
      [] risk_tolerance = "aggressive" -> 9
      [] OTHER -> 5

\* market_return_estimates.get(risk_tolerance, 0.07), in percent
ExpectedReturnPct(risk_tolerance) ==
    CASE risk_tolerance = "conservative" -> 5
      [] risk_tolerance = "moderate" -> 7
      [] risk_tolerance = "aggressive" -> 9
      [] OTHER -> 7

\* mutant: the return is earned on the net worth with the year's savings
\* already added
NetWorthStep_savings_first(p, s) ==
    LET income == MulDiv(s.annual_income, 100 + p.expected_income_growth, 100)
        expenses == MulDiv(s.annual_expenses, 103, 100)
        savings == income - expenses
        investment_return ==
            MulDiv(s.net_worth + savings,
                   ExpectedReturnPct(p.risk_tolerance), 100)
    IN  [net_worth |-> s.net_worth + savings + investment_return,
         annual_income |-> income,
         annual_expenses |-> expenses,
         annual_savings |-> savings]

\* the loop state of project_net_worth after the step of year y (y >= 1)
NetWorthStep(p, s) ==
    LET income == MulDiv(s.annual_income, 100 + p.expected_income_growth, 100)
        expenses == MulDiv(s.annual_expenses, 103, 100)
        savings == income - expenses
        investment_return ==
            MulDiv(s.net_worth, ExpectedReturnPct(p.risk_tolerance), 100)
    IN  [net_worth |-> s.net_worth + investment_return + savings,
         annual_income |-> income,
         annual_expenses |-> expenses,
         annual_savings |-> savings]

NetWorthInitial(p) ==
    [net_worth |-> (p.current_savings - p.total_debt) * Scale,
     annual_income |-> p.annual_income * Scale,
     annual_expenses |-> p.monthly_expenses * 12 * Scale,
     annual_savings |->
        p.annual_income * Scale - p.monthly_expenses * 12 * Scale]

NetWorthEntry(p, year, s) ==
    [year |-> year, age |-> p.age + year,
     net_worth |-> Round2(s.net_worth),
     annual_income |-> Round2(s.annual_income),
     annual_expenses |-> Round2(s.annual_expenses),
     annual_savings |-> Round2(s.annual_savings)]

RECURSIVE NetWorthLoop_grows_year0(_, _, _, _)
\* mutant: the growth step is applied in year 0 as well
NetWorthLoop_grows_year0(p, horizon, year, s) ==
    IF year > horizon THEN <<>>
    ELSE LET now == NetWorthStep(p, s)
         IN  <<NetWorthEntry(p, year, now)>>
             \o NetWorthLoop_grows_year0(p, horizon, year + 1, now)

RECURSIVE NetWorthLoop(_, _, _, _)
\* "for year in range(years + 1)", from year on, s the state before it
NetWorthLoop(p, horizon, year, s) ==
    IF year > horizon THEN <<>>
    ELSE LET now == IF year > 0 THEN NetWorthStep(p, s) ELSE s
         IN  <<NetWorthEntry(p, year, now)>>
             \o NetWorthLoop(p, horizon, year + 1, now)

\* mutant: only the allocation's share in stocks is projected
project_net_worth_stocks_share(p, portfolio_allocation, yrs) ==
    NetWorthLoop(p, Horizon(p, yrs), 0,
                 [NetWorthInitial(p) EXCEPT
                     !.net_worth = MulDiv(@, portfolio_allocation.stocks, 100)])

\* portfolio_allocation is accepted and never read
project_net_worth(p, portfolio_allocation, yrs) ==
    NetWorthLoop(p, Horizon(p, yrs), 0, NetWorthInitial(p))

IncomeEntry(p, year, income) ==
    [year |-> year, age |-> p.age + year,
     gross_income |-> Round2(income),
     monthly_income |-> RoundHalfEven(income, 12 * (Scale \div 100))]

RECURSIVE IncomeLoop_simple_interest(_, _, _, _)
\* mutant: each year adds the growth of the profile's income, not of the
\* income reached
IncomeLoop_simple_interest(p, horizon, year, income) ==
    IF year > horizon THEN <<>>
    ELSE LET now == IF year > 0
                    THEN income + MulDiv(p.annual_income * Scale,
                                         p.expected_income_growth, 100)
                    ELSE income
         IN  <<IncomeEntry(p, year, now)>>
             \o IncomeLoop_simple_interest(p, horizon, year + 1, now)

RECURSIVE IncomeLoop(_, _, _, _)
\* "for year in range(years + 1)", income the loop's variable before year
IncomeLoop(p, horizon, year, income) ==
    IF year > horizon THEN <<>>
    ELSE LET now == IF year > 0
                    THEN MulDiv(income, 100 + p.expected_income_growth, 100)
                    ELSE income
         IN  <<IncomeEntry(p, year, now)>>
             \o IncomeLoop(p, horizon, year + 1, now)

project_income(p, yrs) ==
    IncomeLoop(p, Horizon(p, yrs), 0, p.annual_income * Scale)

RECURSIVE SumYields(_)
\* sum(s.get('dividend_yield', 0.03) for s in stock_recommendations), for
\* recommendations whose yields are numbers
SumYields(recs) ==
    IF recs = <<>> THEN 0
    ELSE Get(Head(recs), "dividend_yield", 3 * (YieldScale \div 100))[1]
         + SumYields(Tail(recs))

\* sum() adding a None yield to a number raises TypeError
SumYieldsStatus(recs) ==
    IF \E i \in 1..Len(recs) :
          Get(recs[i], "dividend_yield", 3 * (YieldScale \div 100)) = <<>>
    THEN "TypeError" ELSE "ok"

\* avg_dividend_yield, the loop's yield, is counted in 1/FineYield: finer
\* than a record's yield, as the mean and the yearly 5% steps need
FineYield == YieldScale * 10000

\* the average yield project_dividends starts from
InitialYield(recs) ==
    IF recs = <<>> THEN 3 * (FineYield \div 100)
    ELSE RoundHalfEven(SumYields(recs) * 10000, Len(recs))

\* the float product of a money value x by the yield y, the yield taken in
\* two parts so that no intermediate product leaves TLC's integers
MulYield(x, y) ==
    MulDiv(x, y \div 10000, YieldScale)
    + MulDiv(MulDiv(x, y % 10000, 10000), 1, YieldScale)

\* x * stock_allocation_pct * dividend_stock_pct
DividendShare(x) == MulDiv(MulDiv(x, 60, 100), 40, 100)

DividendEntry(p, year, value, dividend, yield) ==
    [year |-> year, age |-> p.age + year,
     portfolio_value |-> Round2(value),
     annual_dividend |-> Round2(dividend),
     monthly_dividend |-> RoundHalfEven(dividend, 12 * (Scale \div 100)),
     dividend_yield |-> RoundHalfEven(yield, FineYield \div (100 * 100))]

RECURSIVE DividendLoop_yield_first(_, _, _, _, _)
\* mutant: the yield takes its 5% step before the year's dividend is
\* computed
DividendLoop_yield_first(p, horizon, year, value, yield) ==
    IF year > horizon THEN <<>>
    ELSE LET contributions ==
                 DividendShare((p.annual_income - p.monthly_expenses * 12)
                               * Scale)
             now == IF year > 0 THEN MulDiv(value, 107, 100) + contributions
                    ELSE value
             grown == IF year > 0 THEN MulDiv(yield, 105, 100) ELSE yield
             dividend == MulYield(now, grown)
         IN  <<DividendEntry(p, year, now, dividend, grown)>>
             \o DividendLoop_yield_first(p, horizon, year + 1, now, grown)

RECURSIVE DividendLoop_reports_used(_, _, _, _, _)
\* mutant: the entry reports the yield its dividend was computed with
DividendLoop_reports_used(p, horizon, year, value, yield) ==
    IF year > horizon THEN <<>>
    ELSE LET contributions ==
                 DividendShare((p.annual_income - p.monthly_expenses * 12)
                               * Scale)
             now == IF year > 0 THEN MulDiv(value, 107, 100) + contributions
                    ELSE value
             dividend == MulYield(now, yield)
             grown == IF year > 0 THEN MulDiv(yield, 105, 100) ELSE yield
         IN  <<DividendEntry(p, year, now, dividend, yield)>>
             \o DividendLoop_reports_used(p, horizon, year + 1, now, grown)

RECURSIVE DividendLoop(_, _, _, _, _)
\* value and yield are the loop's variables before the step of year
DividendLoop(p, horizon, year, value, yield) ==
    IF year > horizon THEN <<>>
    ELSE LET contributions ==
                 DividendShare((p.annual_income - p.monthly_expenses * 12)
                               * Scale)
             now == IF year > 0 THEN MulDiv(value, 107, 100) + contributions
                    ELSE value
             dividend == MulYield(now, yield)
             grown == IF year > 0 THEN MulDiv(yield, 105, 100) ELSE yield
         IN  <<DividendEntry(p, year, now, dividend, grown)>>
             \o DividendLoop(p, horizon, year + 1, now, grown)

project_dividends(p, stock_recommendations, yrs) ==
    IF SumYieldsStatus(stock_recommendations) # "ok"
    THEN [status |-> SumYieldsStatus(stock_recommendations)]
    ELSE [status |-> "ok",
          value |-> DividendLoop(p, Horizon(p, yrs), 0,
                                 DividendShare(p.current_savings * Scale),
                                 InitialYield(stock_recommendations))]

\* mutant: the bonds' return left out of the blend
BlendedReturn_stocks_only(allocation) ==
    [num |-> 10 * allocation.stocks, den |-> 10000]

\* expected_annual_return and 1.5 * portfolio_volatility as fractions
BlendedReturn(allocation) ==
    [num |-> 10 * allocation.stocks + 4 * allocation.bonds, den |-> 10000]

Volatility15(allocation) ==
    [num |-> 3 * (18 * allocation.stocks + 5 * allocation.bonds),
     den |-> 20000]

PortfolioEntry(p, allocation, year, value) ==
    LET vol == Volatility15(allocation)
        contribution == (p.annual_income - p.monthly_expenses * 12) * Scale
    IN  [year |-> year, age |-> p.age + year,
         expected_value |-> Round2(value),
         best_case |->
            IF year > 0 THEN Round2(value + MulDiv(value, vol.num, vol.den))
            ELSE Round2(MulDiv(value, 11, 10)),
         worst_case |->
            IF year > 0 THEN Round2(value - MulDiv(value, vol.num, vol.den))
            ELSE Round2(MulDiv(value, 9, 10)),
         conservative_case |->
            IF year > 0 THEN Round2(MulDiv(value, 85, 100))
            ELSE Round2(value),
         total_contributions |-> Round2(contribution * year)]

RECURSIVE PortfolioLoop(_, _, _, _, _)
PortfolioLoop(p, allocation, horizon, year, value) ==
    IF year > horizon THEN <<>>
    ELSE LET ret == BlendedReturn(allocation)
             contribution ==
                 (p.annual_income - p.monthly_expenses * 12) * Scale
             now == IF year > 0
                    THEN value + MulDiv(value, ret.num, ret.den) + contribution
                    ELSE value
         IN  <<PortfolioEntry(p, allocation, year, now)>>
             \o PortfolioLoop(p, allocation, horizon, year + 1, now)

project_portfolio_returns(p, allocation, yrs) ==
    PortfolioLoop(p, allocation, Horizon(p, yrs), 0,
                  p.current_savings * Scale)

\* s[i] with Python's indexing: from the end when i < 0, IndexError outside
PyIndex(s, i) ==
    LET j == IF i < 0 THEN Len(s) + i ELSE i
    IN  IF j < 0 \/ j >= Len(s) THEN [status |-> "IndexError"]
        ELSE [status |-> "ok", value |-> s[j + 1]]

\* mutant: the projection is indexed at years_to_retirement unconditionally
RetirementEntry_unclamped(p, projections) ==
    PyIndex(projections, p.years_to_retirement)

\* the projection entry the net worth at retirement is read from
RetirementEntry(p, projections) ==
    IF p.years_to_retirement >= Len(projections)
    THEN PyIndex(projections, -1)
    ELSE PyIndex(projections, p.years_to_retirement)

RECURSIVE Inflate(_, _)
\* x * (1 + inflation_rate) ** n, as n successive products by 1.03
Inflate(x, n) == IF n = 0 THEN x ELSE Inflate(MulDiv(x, 103, 100), n - 1)

\* retirement_expenses: 80% of the current expenses, inflated
RetirementExpenses(p) ==
    Inflate(MulDiv(p.monthly_expenses * 12 * Scale, 80, 100),
            p.years_to_retirement)

\* mutant: the net worth is held against the whole goal
OnTrack_whole_goal(net_worth, goal) == net_worth >= goal

\* "retirement_net_worth >= retirement_goal * 0.8", on unrounded values
OnTrack(net_worth, goal) == net_worth >= MulDiv(goal, 8, 10)

\* mutant: nothing is replaced when there are no expenses
ReplacementRatio_zero(withdrawal, expenses) ==
    IF expenses > 0 THEN RatioScaled(withdrawal, expenses, 3) ELSE 0

\* replacement_ratio, round(., 1) in tenths of a percent: "if
\* retirement_expenses > 0: (safe_annual_withdrawal / retirement_expenses)
\* * 100, else: 100"
ReplacementRatio(withdrawal, expenses) ==
    IF expenses > 0 THEN RatioScaled(withdrawal, expenses, 3) ELSE 1000

calculate_retirement_readiness(p, projections) ==
    LET entry == RetirementEntry(p, projections)
    IN  IF entry.status # "ok" THEN entry
        ELSE LET net_worth == entry.value.net_worth * (Scale \div 100)
                 expenses == RetirementExpenses(p)
                 withdrawal == MulDiv(net_worth, 4, 100)
                 goal == expenses * 25
             IN  [status |-> "ok",
                  retirement_net_worth |-> Round2(net_worth),
                  estimated_annual_expenses |-> Round2(expenses),
                  safe_annual_withdrawal |-> Round2(withdrawal),
                  replacement_ratio |-> ReplacementRatio(withdrawal, expenses),
                  retirement_goal |-> Round2(goal),
                  on_track |-> OnTrack(net_worth, goal),
                  surplus_shortfall |-> Round2(net_worth - goal)]

ProjectNetWorth ==
    /\ pc = "net_worth" /\ ~Raised
    /\ net_worth_proj' =
          project_net_worth(profile, analysis.recommended_allocation, years)
    /\ pc' = "income"
    /\ UNCHANGED <<advisor, profile, stock_data, num_picks, years, analysis,
                   recommendations, income_proj, dividend_proj,
                   portfolio_proj, retirement, summary, fetch>>

\* mutant: the loop grows profile.annual_income itself instead of a local
ProjectIncome_grows_profile ==
    /\ pc = "income" /\ ~Raised
    /\ income_proj' = project_income(profile, years)
    /\ profile' =
          [profile EXCEPT !.annual_income =
              income_proj'[Len(income_proj')].gross_income \div 100]
    /\ pc' = "dividends"
    /\ UNCHANGED <<advisor, stock_data, num_picks, years, analysis,
                   recommendations, net_worth_proj, dividend_proj,
                   portfolio_proj, retirement, summary, fetch>>

ProjectIncome ==
    /\ pc = "income" /\ ~Raised
    /\ income_proj' = project_income(profile, years)
    /\ pc' = "dividends"
    /\ UNCHANGED <<advisor, profile, stock_data, num_picks, years, analysis,
                   recommendations, net_worth_proj, dividend_proj,
                   portfolio_proj, retirement, summary, fetch>>

\* dividend_proj holds the list returned; when the call raises nothing is
\* assigned and the run ends
ProjectDividends ==
    /\ pc = "dividends" /\ ~Raised
    /\ LET result ==
               project_dividends(profile, recommendations.value, years)
       IN  IF result.status = "ok"
           THEN dividend_proj' = result.value /\ pc' = "portfolio"
           ELSE dividend_proj' = dividend_proj /\ pc' = "raised"
    /\ UNCHANGED <<advisor, profile, stock_data, num_picks, years, analysis,
                   recommendations, net_worth_proj, income_proj,
                   portfolio_proj, retirement, summary, fetch>>

ProjectPortfolioReturns ==
    /\ pc = "portfolio" /\ ~Raised
    /\ portfolio_proj' =
          project_portfolio_returns(profile, analysis.recommended_allocation,
                                    years)
    /\ pc' = "readiness"
    /\ UNCHANGED <<advisor, profile, stock_data, num_picks, years, analysis,
                   recommendations, net_worth_proj, income_proj,
                   dividend_proj, retirement, summary, fetch>>

CalculateRetirementReadiness ==
    /\ pc = "readiness" /\ ~Raised
    /\ retirement' = calculate_retirement_readiness(profile, net_worth_proj)
    /\ pc' = "summary"
    /\ UNCHANGED <<advisor, profile, stock_data, num_picks, years, analysis,
                   recommendations, net_worth_proj, income_proj,
                   dividend_proj, portfolio_proj, summary, fetch>>

\* (a / b) * 100 rounded to 1 decimal, in tenths of a percent, for b # 0
GrowthPct(a, b) ==
    IF b > 0 THEN RatioScaled(a, b, 3) ELSE RatioScaled(-a, -b, 3)

\* mutant: the future state is read at the end of the projection
FutureYears_last(net_worth_projections) == Len(net_worth_projections) - 1

\* "future_years = min(10, len(net_worth_proj) - 1)"
FutureYears(net_worth_projections) ==
    Min(10, Len(net_worth_projections) - 1)

generate_summary(p, projections) ==
    LET current == PyIndex(projections.net_worth, 0)
        future_years == FutureYears(projections.net_worth)
        future_net_worth == PyIndex(projections.net_worth, future_years)
        future_income == PyIndex(projections.income, future_years)
        future_dividend == PyIndex(projections.dividends, future_years)
    IN  IF current.status # "ok" THEN current
        ELSE IF future_net_worth.status # "ok" THEN future_net_worth
        ELSE IF future_income.status # "ok" THEN future_income
        ELSE IF future_dividend.status # "ok" THEN future_dividend
        ELSE IF p.annual_income = 0 THEN [status |-> "ZeroDivisionError"]
        ELSE
        [status |-> "ok",
         current_snapshot |->
            [net_worth |-> current.value.net_worth,
             annual_income |-> 100 * p.annual_income,
             age |-> p.age],
         future_projection |->
            [years_ahead |-> future_years,
             net_worth |-> future_net_worth.value.net_worth,
             annual_income |-> future_income.value.gross_income,
             annual_dividend |-> future_dividend.value.annual_dividend,
             age |-> p.age + future_years],
         growth |->
            [net_worth_growth |->
                IF current.value.net_worth # 0
                THEN GrowthPct(future_net_worth.value.net_worth
                                  - current.value.net_worth,
                               Abs(current.value.net_worth))
                ELSE 0,
             income_growth |->
                GrowthPct(future_income.value.gross_income
                             - 100 * p.annual_income,
                          100 * p.annual_income)],
         retirement_outlook |-> projections.retirement_readiness]

GenerateSummary ==
    /\ pc = "summary" /\ ~Raised
    /\ summary' =
          generate_summary(profile,
                           [net_worth |-> net_worth_proj,
                            income |-> income_proj,
                            dividends |-> dividend_proj,
                            portfolio_returns |-> portfolio_proj,
                            retirement_readiness |-> retirement])
    /\ pc' = "done"
    /\ UNCHANGED <<advisor, profile, stock_data, num_picks, years, analysis,
                   recommendations, net_worth_proj, income_proj,
                   dividend_proj, portfolio_proj, retirement, fetch>>

----------------------------------------------------------------------------
\* Inputs of the advisor's specification

RiskTolerances == {"conservative", "moderate", "aggressive"}

\* what the prompt of collect_user_profile may also receive
RiskInputs == RiskTolerances \cup {"balanced"}

\* test_basic.py's profile
BaseProfile ==
    [age |-> 35, annual_income |-> 100000, current_savings |-> 50000,
     monthly_expenses |-> 3000, total_debt |-> 20000,
     years_to_retirement |-> 30, expected_income_growth |-> 3,
     num_dependents |-> 0, risk_tolerance |-> "moderate",
     preferred_sectors |-> {"technology"}]

Ages == 18..100

AllocationProfiles ==
    {[BaseProfile EXCEPT !.age = a, !.risk_tolerance = r,
                         !.years_to_retirement = y] :
        a \in Ages, r \in RiskInputs, y \in {5, 6, 15, 16}}

RiskProfiles ==
    {[BaseProfile EXCEPT !.annual_income = i, !.total_debt = d,
                         !.current_savings = s, !.monthly_expenses = m,
                         !.num_dependents = n, !.years_to_retirement = y] :
        i \in {0, 49999, 50000}, d \in {0, 20000, 20001},
        s \in {0, 8999, 9000}, m \in {0, 3000}, n \in {0, 1},
        y \in {9, 10}}

\* monthly income below, equal to and above the monthly expenses
DebtFreeProfiles ==
    {[BaseProfile EXCEPT !.annual_income = i, !.total_debt = d] :
        i \in {35000, 36000, 36001, 48000}, d \in {0, 20000}}

AdvisorProfiles == AllocationProfiles \cup RiskProfiles \cup DebtFreeProfiles

InitAdvisor ==
    /\ pc = "analyze"
    /\ advisor \in AdvisorInstances
    /\ profile \in AdvisorProfiles
    /\ stock_data = <<>>
    /\ num_picks = 0
    /\ years = <<>>
    /\ analysis = Unset
    /\ recommendations = Unset
    /\ net_worth_proj = <<>>
    /\ income_proj = <<>>
    /\ dividend_proj = <<>>
    /\ portfolio_proj = <<>>
    /\ retirement = Unset
    /\ summary = Unset
    /\ fetch = NoFetch

SpecAdvisor == InitAdvisor /\ [][AnalyzeProfile]_vars

----------------------------------------------------------------------------
\* Inputs of the stock scorer's specification

MaxStocks == 3
MaxPicks == 3

Stock(tk, sec, b, dy, pe, cap) ==
    [ticker |-> tk, sector |-> sec, beta |-> <<b>>, dividend_yield |-> <<dy>>,
     pe_ratio |-> <<pe>>, market_cap |-> <<cap>>]

\* JNJ and PG differ in ticker and sector only, so they tie unless the
\* profile prefers one of their sectors
Candidates ==
    {Stock("JNJ", "Healthcare", 70, 2500, 15, 400),
     Stock("PG", "Consumer Defensive", 70, 2500, 15, 400),
     Stock("NVDA", "Technology", 170, 0, 60, 1000),
     Stock("SM", "Energy", 130, 0, 0, 5)}

RECURSIVE ListsUpTo(_, _)
\* the lists over S of length at most n
ListsUpTo(S, n) ==
    IF n = 0 THEN {<<>>}
    ELSE LET shorter == ListsUpTo(S, n - 1)
         IN  shorter \cup {Append(l, x) : l \in shorter, x \in S}

StockProfiles ==
    {[BaseProfile EXCEPT !.risk_tolerance = r, !.preferred_sectors = s] :
        r \in RiskInputs, s \in {{}, {"healthcare", "TECHNOLOGY"}}}

InitStocks ==
    /\ pc = "recommend"
    /\ advisor = [use_ollama |-> FALSE, ollama_client |-> FALSE]
    /\ profile \in StockProfiles
    /\ stock_data \in ListsUpTo(Candidates \cup {None}, MaxStocks)
    /\ num_picks \in 0..MaxPicks
    /\ years = <<>>
    /\ analysis = Unset
    /\ recommendations = Unset
    /\ net_worth_proj = <<>>
    /\ income_proj = <<>>
    /\ dividend_proj = <<>>
    /\ portfolio_proj = <<>>
    /\ retirement = Unset
    /\ summary = Unset
    /\ fetch = NoFetch

SpecStocks == InitStocks /\ [][GenerateStockRecommendations]_vars

----------------------------------------------------------------------------
\* Inputs of the stock scorer's specification over incomplete records: a
\* record may lack a key, or hold None under it

MaxRecords == 2

OptionalKeys == {"beta", "dividend_yield", "pe_ratio", "market_cap"}

\* the dict without the key
WithoutKey(stock, key) == [k \in DOMAIN stock \ {key} |-> stock[k]]

\* the dict with None under the key
WithNone(stock, key) == [stock EXCEPT ![key] = <<>>]

CompleteRecord == Stock("KO", "Consumer Defensive", 60, 3000, 22, 250)

RecordCandidates ==
    {CompleteRecord}
    \cup {WithoutKey(CompleteRecord, k) : k \in OptionalKeys}
    \cup {WithNone(CompleteRecord, k) : k \in OptionalKeys}

InitRecords ==
    /\ pc = "recommend"
    /\ advisor = [use_ollama |-> FALSE, ollama_client |-> FALSE]
    /\ profile \in StockProfiles
    /\ stock_data \in ListsUpTo(RecordCandidates \cup {None}, MaxRecords)
    /\ num_picks = 10
    /\ years = <<>>
    /\ analysis = Unset
    /\ recommendations = Unset
    /\ net_worth_proj = <<>>
    /\ income_proj = <<>>
    /\ dividend_proj = <<>>
    /\ portfolio_proj = <<>>
    /\ retirement = Unset
    /\ summary = Unset
    /\ fetch = NoFetch

SpecRecords == InitRecords /\ [][GenerateStockRecommendations]_vars

----------------------------------------------------------------------------
\* Inputs of the stock scorer's specification over one record at a time:
\* every value _score_stock compares sits below, on and above its thresholds

ScoreRecords ==
    {Stock("XYZ", sec, b, dy, pe, cap) :
        sec \in {"Technology", "Energy"},
        b \in {79, 80, 120, 121},
        dy \in {0, 1500, 1501, 2000, 2001},
        pe \in {0, 9, 10, 25, 26, 40, 41},
        cap \in {9, 10, 100, 101}}

InitScores ==
    /\ pc = "recommend"
    /\ advisor = [use_ollama |-> FALSE, ollama_client |-> FALSE]
    /\ profile \in StockProfiles
    /\ stock_data \in {<<stock>> : stock \in ScoreRecords}
    /\ num_picks = 10
    /\ years = <<>>
    /\ analysis = Unset
    /\ recommendations = Unset
    /\ net_worth_proj = <<>>
    /\ income_proj = <<>>
    /\ dividend_proj = <<>>
    /\ portfolio_proj = <<>>
    /\ retirement = Unset
    /\ summary = Unset
    /\ fetch = NoFetch

SpecScores == InitScores /\ [][GenerateStockRecommendations]_vars

----------------------------------------------------------------------------
\* Inputs of the stock scorer's specification over lists of complete
\* records: the one-record lists above, and lists with None entries over
\* records that a conservative profile scores lowest and highest

ExtremeRecords ==
    {Stock("LOW", "Energy", 121, 0, 41, 100),
     Stock("MID", "Healthcare", 100, 1501, 0, 9),
     Stock("TOP", "Technology", 79, 2001, 25, 101)}

InitScoreLists ==
    /\ pc = "recommend"
    /\ advisor = [use_ollama |-> FALSE, ollama_client |-> FALSE]
    /\ profile \in StockProfiles
    /\ stock_data \in {<<stock>> : stock \in ScoreRecords}
                      \cup ListsUpTo(ExtremeRecords \cup {None}, MaxStocks)
    /\ num_picks \in 0..MaxPicks \cup {10}
    /\ years = <<>>
    /\ analysis = Unset
    /\ recommendations = Unset
    /\ net_worth_proj = <<>>
    /\ income_proj = <<>>
    /\ dividend_proj = <<>>
    /\ portfolio_proj = <<>>
    /\ retirement = Unset
    /\ summary = Unset
    /\ fetch = NoFetch

SpecScoreLists == InitScoreLists /\ [][GenerateStockRecommendations]_vars

----------------------------------------------------------------------------
\* Inputs of the projector's specification: the state main.py has reached
\* when it starts projecting (profile analysed, recommendations made)

MaxRetire == 3
MaxYears == 3

ShortProfiles ==
    {[BaseProfile EXCEPT !.annual_income = i, !.current_savings = s,
                         !.monthly_expenses = m, !.total_debt = d,
                         !.expected_income_growth = g,
                         !.risk_tolerance = r, !.years_to_retirement = y] :
        i \in {171, 1200}, s \in {500, 2000}, m \in {4, 50},
        d \in {0, 600}, g \in {0, 3}, r \in RiskInputs,
        y \in 0..MaxRetire}

\* retirement at and beyond the 30-year cap of the default horizon
LongProfiles ==
    {[BaseProfile EXCEPT !.annual_income = 171, !.current_savings = 500,
                         !.monthly_expenses = 4, !.total_debt = 0,
                         !.risk_tolerance = "conservative",
                         !.years_to_retirement = y] : y \in {30, 31}}

ProjectorProfiles == ShortProfiles \cup LongProfiles

YearsArguments == {<<>>} \cup {<<n>> : n \in 0..MaxYears}

ProjectorStockData ==
    {<<>>,
     <<Stock("JNJ", "Healthcare", 70, 2500, 15, 400), None,
       Stock("NVDA", "Technology", 170, 0, 60, 1000)>>}

InitProjector ==
    /\ pc = "net_worth"
    /\ advisor = [use_ollama |-> FALSE, ollama_client |-> FALSE]
    /\ profile \in ProjectorProfiles
    /\ stock_data \in ProjectorStockData
    /\ num_picks = 10
    /\ years \in YearsArguments
    /\ analysis = analyze_profile(profile, advisor, "empty")
    /\ recommendations =
          generate_stock_recommendations(profile, stock_data, num_picks)
    /\ net_worth_proj = <<>>
    /\ income_proj = <<>>
    /\ dividend_proj = <<>>
    /\ portfolio_proj = <<>>
    /\ retirement = Unset
    /\ summary = Unset
    /\ fetch = NoFetch

NextProjector ==
    \/ ProjectNetWorth
    \/ ProjectIncome
    \/ ProjectDividends
    \/ ProjectPortfolioReturns
    \/ CalculateRetirementReadiness
    \/ GenerateSummary

SpecProjector == InitProjector /\ [][NextProjector]_vars

----------------------------------------------------------------------------
\* Inputs of the dividend projection's specification: project_dividends
\* called on lists of recommendation dicts, some without a dividend_yield
\* key and some holding None under it

Pick(tk, dy) == [ticker |-> tk, dividend_yield |-> dy]

DividendPicks ==
    {<<>>,
     <<Pick("KO", <<3100>>)>>,
     <<Pick("JNJ", <<2500>>), Pick("NVDA", <<0>>)>>,
     <<[ticker |-> "NOK"], Pick("JNJ", <<2500>>)>>,
     <<[ticker |-> "NOK"]>>,
     <<Pick("JNJ", <<2500>>), Pick("TSLA", <<>>)>>}

DividendProfiles ==
    {[BaseProfile EXCEPT !.annual_income = i, !.current_savings = s,
                         !.monthly_expenses = m, !.years_to_retirement = y] :
        i \in {171, 1200}, s \in {0, 500, 2000}, m \in {4, 50},
        y \in 0..MaxRetire}

InitDividends ==
    /\ pc = "dividends"
    /\ advisor = [use_ollama |-> FALSE, ollama_client |-> FALSE]
    /\ profile \in DividendProfiles \cup LongProfiles
    /\ stock_data = <<>>
    /\ num_picks = 10
    /\ years \in YearsArguments
    /\ analysis = Unset
    /\ recommendations \in {[status |-> "ok", value |-> picks] :
                                picks \in DividendPicks}
    /\ net_worth_proj = <<>>
    /\ income_proj = <<>>
    /\ dividend_proj = <<>>
    /\ portfolio_proj = <<>>
    /\ retirement = Unset
    /\ summary = Unset
    /\ fetch = NoFetch

SpecDividends == InitDividends /\ [][ProjectDividends]_vars

----------------------------------------------------------------------------
\* Inputs of the specification of the projector called on its own, as
\* test_financial_projections does: any profile, expenses of zero or below
\* included, with an allocation the caller chose

DirectProfiles ==
    {[BaseProfile EXCEPT !.annual_income = 171, !.current_savings = 500,
                         !.monthly_expenses = m, !.total_debt = d,
                         !.risk_tolerance = r, !.years_to_retirement = y] :
        m \in {-1, 0, 4}, d \in {0, 600}, r \in RiskTolerances,
        y \in 0..MaxRetire}
    \cup
    {[BaseProfile EXCEPT !.annual_income = 60, !.current_savings = 300,
                         !.monthly_expenses = m, !.total_debt = 0,
                         !.expected_income_growth = 0,
                         !.risk_tolerance = "conservative",
                         !.years_to_retirement = 31] : m \in {-1, 0, 4}}

Allocations ==
    {[stocks |-> s, bonds |-> BondPercentage(s), breakdown |-> Breakdown(s)] :
        s \in {30, 60, 90}}

InitDirect ==
    /\ pc = "net_worth"
    /\ advisor = [use_ollama |-> FALSE, ollama_client |-> FALSE]
    /\ profile \in DirectProfiles
    /\ stock_data = <<>>
    /\ num_picks = 10
    /\ years \in YearsArguments
    /\ analysis \in {[status |-> "ok", recommended_allocation |-> a] :
                         a \in Allocations}
    /\ recommendations = [status |-> "ok", value |-> <<>>]
    /\ net_worth_proj = <<>>
    /\ income_proj = <<>>
    /\ dividend_proj = <<>>
    /\ portfolio_proj = <<>>
    /\ retirement = Unset
    /\ summary = Unset
    /\ fetch = NoFetch

SpecDirect == InitDirect /\ [][NextProjector]_vars

----------------------------------------------------------------------------
\* The ticker loop of run_interactive_mode (main.py 193-228) over
\* MarketDataFetcher (market_data.py).  The market is the set of tickers
\* whose get_stock_info fails; a fetch that succeeds on a ticker the data
\* source knows nothing about yields the record of info.get's defaults.

Range(seq) == {seq[i] : i \in 1..Len(seq)}

\* seq[:n]
Take(seq, n) == SubSeq(seq, 1, Min(n, Len(seq)))

\* the sectors the profiles below prefer; any other name has no list
sector_stocks(sector) ==
    CASE sector = "technology" ->
             <<"AAPL", "MSFT", "GOOGL", "META", "NVDA", "AVGO", "CSCO",
               "ADBE", "CRM", "INTC">>
      [] sector = "healthcare" ->
             <<"JNJ", "UNH", "PFE", "ABBV", "MRK", "TMO", "ABT", "DHR",
               "LLY", "BMY">>
      [] sector = "finance" ->
             <<"JPM", "BAC", "WFC", "C", "GS", "MS", "BLK", "SCHW", "AXP",
               "USB">>
      [] sector = "energy" ->
             <<"XOM", "CVX", "COP", "SLB", "EOG", "MPC", "PSX", "VLO",
               "OXY", "HAL">>
      [] sector = "consumer" ->
             <<"AMZN", "TSLA", "WMT", "HD", "NKE", "MCD", "SBUX", "TGT",
               "LOW", "DIS">>
      [] OTHER -> <<>>

get_sector_stocks(sector, limit) == Take(sector_stocks(Lower(sector)), limit)

dividend_stocks ==
    <<"JNJ", "PG", "KO", "PEP", "MCD", "WMT", "XOM", "CVX", "T", "VZ", "IBM",
      "ABBV", "MMM", "CAT", "TGT", "O", "MO", "SO", "DUK", "NEE">>

get_dividend_stocks(limit) == Take(dividend_stocks, limit)

BlueChips == {"AAPL", "MSFT", "GOOGL", "JNJ", "JPM", "V", "WMT", "PG"}

\* set(all_stocks): sector picks, dividend picks for a conservative
\* profile, and the blue chips, without duplicates
AllStocks(p) ==
    UNION {Range(get_sector_stocks(sector, 5)) : sector \in p.preferred_sectors}
    \cup (IF p.risk_tolerance = "conservative"
          THEN Range(get_dividend_stocks(10)) ELSE {})
    \cup BlueChips

TickerOrder ==
    <<"AAPL", "ABBV", "AMZN", "BAC", "C", "COP", "CVX", "EOG", "GOOGL", "GS",
      "HD", "JNJ", "JPM", "KO", "MCD", "META", "MRK", "MSFT", "NKE", "NVDA",
      "PEP", "PFE", "PG", "SLB", "T", "TSLA", "UNH", "V", "VZ", "WFC", "WMT",
      "XOM">>

Reverse(seq) == [i \in 1..Len(seq) |-> seq[Len(seq) + 1 - i]]

\* list(set(all_stocks)): the order of a set's elements is not specified;
\* two of the orders it can take
Listings(tickers) ==
    LET Listed(t) == t \in tickers
        sorted == SelectSeq(TickerOrder, Listed)
    IN  {sorted, Reverse(sorted)}

get_stock_info(ticker, unavailable) ==
    IF ticker \in unavailable THEN None
    ELSE Stock(ticker, "Unknown", 100, 0, 0, 0)

\* for ticker in all_stocks[:30]
FetchLimit == 30

\* fetch_errors > 10
FetchErrorLimit == 10

\* get_fallback_stock_data(): a curated set of complete records of
\* historically high-dividend securities
get_fallback_stock_data ==
    <<Stock("JNJ", "Healthcare", 55, 3000, 15, 380),
      Stock("PG", "Consumer Defensive", 40, 2400, 25, 350),
      Stock("KO", "Consumer Defensive", 60, 3100, 24, 260)>>

CandidateSet_ten(data, fetch_errors) ==
    IF data = <<>> \/ fetch_errors >= FetchErrorLimit
    THEN get_fallback_stock_data
    ELSE data

\* if not stock_data or fetch_errors > 10: stock_data = fallback
CandidateSet(data, fetch_errors) ==
    IF data = <<>> \/ fetch_errors > FetchErrorLimit
    THEN get_fallback_stock_data
    ELSE data

FetchList == Take(fetch.all_stocks, FetchLimit)

\* one pass of the loop body
FetchTicker ==
    /\ pc = "fetch"
    /\ fetch.position < Len(FetchList)
    /\ LET ticker == FetchList[fetch.position + 1]
           data == get_stock_info(ticker, fetch.unavailable)
       IN  IF data # None
           THEN /\ stock_data' = Append(stock_data, data)
                /\ fetch' = [fetch EXCEPT !.position = @ + 1]
           ELSE /\ stock_data' = stock_data
                /\ fetch' = [fetch EXCEPT !.position = @ + 1,
                                          !.fetch_errors = @ + 1]
    /\ UNCHANGED <<pc, advisor, profile, num_picks, years, analysis,
                   recommendations, net_worth_proj, income_proj,
                   dividend_proj, portfolio_proj, retirement, summary>>

\* the loop is over: the candidate set is settled
ChooseCandidates ==
    /\ pc = "fetch"
    /\ fetch.position = Len(FetchList)
    /\ stock_data' = CandidateSet(stock_data, fetch.fetch_errors)
    /\ pc' = "recommend"
    /\ UNCHANGED <<advisor, profile, num_picks, years, analysis,
                   recommendations, net_worth_proj, income_proj,
                   dividend_proj, portfolio_proj, retirement, summary,
                   fetch>>

FetchProfiles ==
    {[BaseProfile EXCEPT !.preferred_sectors = s, !.risk_tolerance = r] :
        s \in {{}, {"technology"}, {"Healthcare", "crypto"},
               {"technology", "healthcare", "finance", "energy", "consumer"}},
        r \in {"conservative", "moderate"}}

\* the markets: the first k tickers fail, all but the first k fail, and,
\* for a short list, any of them
Outages(listing) ==
    {{listing[i] : i \in 1..k} : k \in 0..Len(listing)}
    \cup {{listing[i] : i \in (k + 1)..Len(listing)} : k \in 0..Len(listing)}
    \cup (IF Len(listing) <= FetchErrorLimit
          THEN SUBSET Range(listing) ELSE {})

InitFetch ==
    /\ pc = "fetch"
    /\ advisor = [use_ollama |-> FALSE, ollama_client |-> FALSE]
    /\ profile \in FetchProfiles
    /\ stock_data = <<>>
    /\ num_picks = 10
    /\ years = <<>>
    /\ analysis = analyze_profile(profile, advisor, "empty")
    /\ recommendations = Unset
    /\ net_worth_proj = <<>>
    /\ income_proj = <<>>
    /\ dividend_proj = <<>>
    /\ portfolio_proj = <<>>
    /\ retirement = Unset
    /\ summary = Unset
    /\ \E listing \in Listings(AllStocks(profile)) :
          fetch \in {[all_stocks |-> listing, position |-> 0,
                      fetch_errors |-> 0, unavailable |-> u] :
                         u \in Outages(listing)}

NextFetch ==
    \/ FetchTicker
    \/ ChooseCandidates
    \/ GenerateStockRecommendations

SpecFetch == InitFetch /\ [][NextFetch]_vars

----------------------------------------------------------------------------
\* The whole request, as run_interactive_mode makes it: analysis, stock
\* recommendations, the four projections, readiness and summary, over one
\* profile and one candidate list.

\* a small household, with debt below, equal to and above its savings
HouseholdProfiles ==
    {[BaseProfile EXCEPT !.annual_income = 171, !.current_savings = 500,
                         !.monthly_expenses = 4, !.total_debt = d,
                         !.risk_tolerance = r, !.years_to_retirement = y] :
        d \in {0, 500, 600}, r \in RiskInputs, y \in {2, 16}}

\* UserProfile(...) checks nothing: a zero income, zero expenses and a
\* negative age are profiles as well
UncheckedProfiles ==
    {[BaseProfile EXCEPT !.annual_income = 0],
     [BaseProfile EXCEPT !.monthly_expenses = 0],
     [BaseProfile EXCEPT !.annual_income = 171, !.current_savings = 500,
                         !.monthly_expenses = 4, !.total_debt = 0,
                         !.years_to_retirement = 2, !.age = -1]}

WorkflowProfiles == HouseholdProfiles \cup UncheckedProfiles

Init ==
    /\ pc = "analyze"
    /\ advisor \in AdvisorInstances
    /\ profile \in WorkflowProfiles
    /\ stock_data \in ProjectorStockData
    /\ num_picks = 10
    /\ years \in YearsArguments
    /\ analysis = Unset
    /\ recommendations = Unset
    /\ net_worth_proj = <<>>
    /\ income_proj = <<>>
    /\ dividend_proj = <<>>
    /\ portfolio_proj = <<>>
    /\ retirement = Unset
    /\ summary = Unset
    /\ fetch = NoFetch

Next ==
    \/ AnalyzeProfile
    \/ GenerateStockRecommendations
    \/ ProjectNetWorth
    \/ ProjectIncome
    \/ ProjectDividends
    \/ ProjectPortfolioReturns
    \/ CalculateRetirementReadiness
    \/ GenerateSummary

Spec == Init /\ [][Next]_vars

----------------------------------------------------------------------------
\* Properties of the advisor

Analysed == pc # "analyze" /\ analysis.status = "ok"

\* C1: for every age in 18..100 and every risk tolerance in {conservative,
\* moderate, aggressive}, the allocation analyze_profile reports has
\* stocks + bonds = 100 exactly and 30 <= stocks <= 90.
C1_AllocationSumsTo100 ==
    (Analysed /\ profile.age \in 18..100
              /\ profile.risk_tolerance \in RiskTolerances)
    => LET a == analysis.recommended_allocation
       IN  /\ a.stocks + a.bonds = 100
           /\ 30 <= a.stocks /\ a.stocks <= 90

\* C1 witness: an 18 year old aggressive profile, clamped from 107 to 90.
C1_Witness ==
    /\ Analysed
    /\ profile.age = 18 /\ profile.risk_tolerance = "aggressive"
    /\ analysis.recommended_allocation.stocks = 90
    /\ analysis.recommended_allocation.bonds = 10

\* C19: _determine_allocation computes stocks = clamp(110 - age + adjustment,
\* 30, 90), the adjustment being -15, 0, +15 for conservative, moderate,
\* aggressive, and bonds = 100 - stocks; the four demo profiles give
\* (38, moderate) -> 72/28, (28, aggressive) -> 90/10,
\* (52, conservative) -> 43/57 and (67, conservative) -> 30/70.
C19_Expected(age, risk) ==
    LET adjustment == IF risk = "conservative" THEN -15
                      ELSE IF risk = "aggressive" THEN 15 ELSE 0
        raw == 110 - age + adjustment
    IN  IF raw < 30 THEN 30 ELSE IF raw > 90 THEN 90 ELSE raw

C19_Demo(age, risk, stocks, bonds) ==
    (profile.age = age /\ profile.risk_tolerance = risk)
    => /\ analysis.recommended_allocation.stocks = stocks
       /\ analysis.recommended_allocation.bonds = bonds

C19_AllocationFormula ==
    (Analysed /\ profile.risk_tolerance \in RiskTolerances)
    => LET a == analysis.recommended_allocation
           stocks == C19_Expected(profile.age, profile.risk_tolerance)
       IN  /\ a.stocks = stocks
           /\ a.bonds = 100 - stocks
           /\ C19_Demo(38, "moderate", 72, 28)
           /\ C19_Demo(28, "aggressive", 90, 10)
           /\ C19_Demo(52, "conservative", 43, 57)
           /\ C19_Demo(67, "conservative", 30, 70)

\* C19 witness: the pre-retirement demo profile's age and risk tolerance,
\* 110 - 52 - 15 = 43, inside the clamp.
C19_Witness ==
    /\ Analysed
    /\ profile.age = 52 /\ profile.risk_tolerance = "conservative"
    /\ analysis.recommended_allocation.stocks = 43
    /\ analysis.recommended_allocation.bonds = 57

\* C2: for every age in 18..100 and every risk tolerance, the four reported
\* stock sub-allocations (tenths of a percent) sum to the reported stocks
\* percentage within 0.1.
C2_BreakdownSum ==
    (Analysed /\ profile.age \in 18..100)
    => LET a == analysis.recommended_allocation
           b == a.breakdown
           sum == b.large_cap + b.mid_cap + b.small_cap + b.international
       IN  Abs(sum - 10 * a.stocks) <= 1

\* C2 witness: an allocation whose rounded parts miss the total by 0.1
\* (31% stocks: 18.6 + 7.8 + 3.1 + 1.6 = 31.1).
C2_Witness ==
    /\ Analysed
    /\ analysis.recommended_allocation.stocks = 31
    /\ LET b == analysis.recommended_allocation.breakdown
       IN  b.large_cap + b.mid_cap + b.small_cap + b.international = 311

\* C6: the strategy label follows the ordered rules: years_to_retirement
\* <= 5 gives Capital Preservation and otherwise <= 15 gives Balanced
\* Growth, both whatever the risk tolerance; otherwise aggressive gives
\* Aggressive Growth, conservative gives Conservative Growth and anything
\* else Moderate Growth.
C6_StrategyRules ==
    Analysed
    => LET y == profile.years_to_retirement
           r == profile.risk_tolerance
           s == analysis.investment_strategy
       IN  /\ (y <= 5) => s = CapitalPreservation
           /\ (5 < y /\ y <= 15) => s = BalancedGrowth
           /\ (y > 15 /\ r = "aggressive") => s = AggressiveGrowth
           /\ (y > 15 /\ r = "conservative") => s = ConservativeGrowth
           /\ (y > 15 /\ r \notin {"aggressive", "conservative"})
                 => s = ModerateGrowth
           /\ s \in {CapitalPreservation, BalancedGrowth, AggressiveGrowth,
                     ConservativeGrowth, ModerateGrowth}

\* C6 witness: an aggressive profile 5 years from retirement is labelled
\* Capital Preservation, and an unrecognised tolerance far from retirement
\* Moderate Growth.
C6_Witness ==
    /\ Analysed
    /\ \/ /\ profile.years_to_retirement = 5
          /\ profile.risk_tolerance = "aggressive"
          /\ analysis.investment_strategy = CapitalPreservation
       \/ /\ profile.years_to_retirement = 16
          /\ profile.risk_tolerance = "balanced"
          /\ analysis.investment_strategy = ModerateGrowth

\* the number of the five conditions of C7 that hold of the profile
C7_Count ==
    LET B(x) == IF x THEN 1 ELSE 0
    IN  B(profile.annual_income < 50000)
        + B(100 * profile.total_debt > 40 * profile.annual_income)
        + B(profile.current_savings < 3 * profile.monthly_expenses)
        + B(profile.num_dependents > 0)
        + B(profile.years_to_retirement < 10)

\* C7: for a profile with annual_income > 0 and monthly_expenses > 0 the
\* risk label is High iff at least 3 of the five conditions hold, Moderate
\* iff 1 or 2 hold, and Low iff none holds.
C7_RiskBuckets ==
    (pc # "analyze" /\ profile.annual_income > 0
                    /\ profile.monthly_expenses > 0)
    => /\ analysis.status = "ok"
       /\ (analysis.risk_assessment = HighRisk) <=> (C7_Count >= 3)
       /\ (analysis.risk_assessment = ModerateRisk) <=> (C7_Count \in {1, 2})
       /\ (analysis.risk_assessment = LowRisk) <=> (C7_Count = 0)

\* C7 witness: exactly three conditions hold and the label is High.
C7_Witness ==
    /\ Analysed
    /\ C7_Count = 3
    /\ analysis.risk_assessment = HighRisk

\* C13: for a profile with annual_income > 0 and monthly_expenses > 0,
\* years_to_debt_free is the sentinel 'N/A' exactly when monthly_expenses
\* >= annual_income / 12, and otherwise the number
\* total_debt / ((annual_income / 12 - monthly_expenses) * 12) (to 2
\* decimals, in hundredths), a division by a positive number; no infinite
\* value is reported.
C13_YearsToDebtFree ==
    (pc # "analyze" /\ profile.annual_income > 0
                    /\ profile.monthly_expenses > 0)
    => /\ analysis.status = "ok"
       /\ LET y == analysis.financial_health.years_to_debt_free
              surplus == profile.annual_income - 12 * profile.monthly_expenses
          IN  /\ y.kind \in {"N/A", "number"}
              /\ (y.kind = "N/A") <=> (surplus <= 0)
              /\ (y.kind = "number")
                    => /\ surplus > 0
                       /\ 2 * Abs(y.value * surplus
                                  - 100 * profile.total_debt) <= surplus

\* C13 witness: a profile in debt whose expenses are exactly a twelfth of
\* its income is reported 'N/A'.
C13_Witness ==
    /\ Analysed
    /\ profile.annual_income = 12 * profile.monthly_expenses
    /\ profile.total_debt > 0
    /\ analysis.financial_health.years_to_debt_free = [kind |-> "N/A"]

\* what analyze_profile returns for the profile without the LLM
C16_RuleBased ==
    analyze_profile(profile, [use_ollama |-> FALSE, ollama_client |-> FALSE],
                    "empty")

\* C16: whether the LLM call succeeds, returns empty text or raises,
\* analyze_profile with the insight generator enabled returns the same
\* financial_health, recommended_allocation, investment_strategy and
\* risk_assessment as with it disabled; only the ai_insights text is added.
C16_LlmAddsOnlyInsights ==
    (pc # "analyze")
    => /\ analysis.status = C16_RuleBased.status
       /\ analysis.status = "ok"
             => /\ analysis.financial_health = C16_RuleBased.financial_health
                /\ analysis.recommended_allocation
                      = C16_RuleBased.recommended_allocation
                /\ analysis.investment_strategy
                      = C16_RuleBased.investment_strategy
                /\ analysis.risk_assessment = C16_RuleBased.risk_assessment
                /\ (analysis.ai_insights # <<>>)
                      <=> (advisor.use_ollama /\ advisor.ollama_client)

\* C16 witness: an analysis made with the LLM enabled whose call failed or
\* returned nothing: the insight text is empty, the figures are there.
C16_Witness ==
    /\ Analysed
    /\ advisor.use_ollama /\ advisor.ollama_client
    /\ analysis.ai_insights = <<"">>
    /\ analysis.recommended_allocation = _determine_allocation(profile)
    /\ analysis.risk_assessment = HighRisk

\* a profile outside the required input ranges
C14_OutOfRange ==
    \/ profile.annual_income <= 0
    \/ profile.monthly_expenses <= 0
    \/ profile.age < 0

\* C14 as stated: a profile outside the required ranges (annual_income <= 0
\* or monthly_expenses <= 0, or a negative age) is rejected with a
\* ValidationError at the profile boundary, and analyze_profile ends in no
\* other error, such as a division by zero, for it.
C14_Original ==
    /\ analysis.status \in {"unset", "ok", "ValidationError"}
    /\ C14_OutOfRange => analysis.status \in {"unset", "ValidationError"}

----------------------------------------------------------------------------
\* Properties of the stock scorer

Recommended == pc \notin {"analyze", "fetch", "recommend"}

\* the input positions holding a record
NonNone == {i \in 1..Len(stock_data) : stock_data[i] # None}

\* C3: for any candidate list (None entries included) and any num_picks >= 0
\* the call returns a list whose scores never increase from first to last,
\* whose length is at most num_picks, and whose every element was built from
\* a non-None input record.
C3_SortedBoundedNonNull ==
    (Recommended /\ num_picks >= 0)
    => /\ recommendations.status = "ok"
       /\ LET out == recommendations.value
          IN  /\ \A i \in 1..Len(out) - 1 : out[i].score >= out[i + 1].score
              /\ Len(out) <= num_picks
              /\ \A i \in 1..Len(out) :
                    \E j \in NonNone :
                       /\ stock_data[j].ticker = out[i].ticker
                       /\ stock_data[j].sector = out[i].sector
                       /\ stock_data[j].pe_ratio = out[i].pe_ratio
                       /\ stock_data[j].dividend_yield = out[i].dividend_yield

\* C3 witness: three entries, one of them None and one scored higher than
\* the other but listed after it; two picks asked for, two returned in
\* descending order.
C3_Witness ==
    /\ Recommended
    /\ Len(stock_data) = 3 /\ Cardinality(NonNone) = 2
    /\ num_picks = 2
    /\ recommendations.status = "ok"
    /\ Len(recommendations.value) = 2
    /\ recommendations.value[1].score > recommendations.value[2].score
    /\ \E i, j \in NonNone :
          /\ i < j
          /\ stock_data[j].ticker = recommendations.value[1].ticker
          /\ stock_data[i].ticker = recommendations.value[2].ticker

RECURSIVE TickersOf(_)
\* the tickers of s, in order
TickersOf(s) ==
    IF s = <<>> THEN <<>> ELSE <<Head(s).ticker>> \o TickersOf(Tail(s))

IsPrefix(a, b) == Len(a) <= Len(b) /\ SubSeq(b, 1, Len(a)) = a

\* the input records scored v, in input order
InputsScored(v) ==
    LET Keep(x) == x # None /\ _score_stock(x, profile) = v
    IN  TickersOf(SelectSeq(stock_data, Keep))

\* the recommendations scored v, in output order
OutputsScored(v) ==
    LET Keep(x) == x.score = v
    IN  TickersOf(SelectSeq(recommendations.value, Keep))

InputScores == {_score_stock(stock_data[i], profile) : i \in NonNone}

\* C4: recommendations of equal score keep the relative order of their
\* source records in stock_data, and the list is cut to num_picks after the
\* sort: a record is left out only when the list is full of records that
\* score at least as much, earlier equals first.
C4_StableThenTruncated ==
    (Recommended /\ recommendations.status = "ok")
    => LET out == recommendations.value
       IN  \A v \in InputScores :
              /\ IsPrefix(OutputsScored(v), InputsScored(v))
              /\ Len(OutputsScored(v)) < Len(InputsScored(v))
                    => /\ Len(out) = Max(0, num_picks)
                       /\ \A i \in 1..Len(out) : out[i].score >= v

\* C4 witness: PG, a lower-scored record, then JNJ; PG and JNJ tie and come
\* out in that order, and the cut to two picks drops the record between.
C4_Witness ==
    /\ Recommended
    /\ Len(stock_data) = 3 /\ NonNone = {1, 2, 3}
    /\ stock_data[1].ticker = "PG" /\ stock_data[3].ticker = "JNJ"
    /\ _score_stock(stock_data[2], profile)
          < _score_stock(stock_data[1], profile)
    /\ num_picks = 2
    /\ recommendations.status = "ok"
    /\ Len(recommendations.value) = 2
    /\ recommendations.value[1].ticker = "PG"
    /\ recommendations.value[2].ticker = "JNJ"
    /\ recommendations.value[1].score = recommendations.value[2].score

\* C5: given an empty candidate list, or one whose entries are all None, the
\* call returns an empty list and raises no error.
C5_EmptyOrAllNone ==
    (Recommended /\ NonNone = {})
    => /\ recommendations.status = "ok"
       /\ recommendations.value = <<>>

\* C5 witness: a list of None entries, picks asked for, the empty list
\* returned.
C5_Witness ==
    /\ Recommended
    /\ Len(stock_data) >= 2 /\ NonNone = {}
    /\ num_picks > 0
    /\ recommendations.status = "ok"
    /\ recommendations.value = <<>>

RECURSIVE ScoresOf(_)
\* the tickers and scores of a recommendation list, in order
ScoresOf(recs) ==
    IF recs = <<>> THEN <<>>
    ELSE <<[ticker |-> Head(recs).ticker, score |-> Head(recs).score]>>
         \o ScoresOf(Tail(recs))

\* the record with each absent value (missing key or None) replaced by the
\* value C15 gives it: 0 for dividend_yield, pe_ratio and market_cap, 1.0
\* for beta
C15_Filled(stock) ==
    LET Value(key, default) ==
            IF key \in DOMAIN stock /\ stock[key] # <<>>
            THEN stock[key] ELSE <<default>>
    IN  [ticker |-> stock.ticker, sector |-> stock.sector,
         beta |-> Value("beta", 100),
         dividend_yield |-> Value("dividend_yield", 0),
         pe_ratio |-> Value("pe_ratio", 0),
         market_cap |-> Value("market_cap", 0)]

C15_FilledData ==
    [i \in 1..Len(stock_data) |->
        IF stock_data[i] = None THEN None ELSE C15_Filled(stock_data[i])]

\* C15 as stated: a non-None record with an absent (missing key or None)
\* dividend_yield or pe_ratio is scored and included as if the value were
\* 0, an absent beta counts as 1.0 and an absent market_cap as 0, and
\* generate_stock_recommendations never fails on such a record.
C15_Original ==
    Recommended
    => /\ recommendations.status = "ok"
       /\ ScoresOf(recommendations.value)
             = ScoresOf(generate_stock_recommendations(
                           profile, C15_FilledData, num_picks).value)


\* C20: for a record whose values are numbers and a profile of one of the
\* three risk tolerances, _score_stock returns 50 plus the sum of exactly
\* these adjustments: +15 if the sector matches a preferred sector ignoring
\* case; conservative: +10 if beta < 0.8, -10 if beta > 1.2, +15 if
\* dividend_yield > 0.02; aggressive: +10 if beta > 1.2 and +5 always;
\* moderate: +10 if 0.8 <= beta <= 1.2, +10 if dividend_yield > 0.015;
\* +10 if 10 <= pe_ratio <= 25, -5 if pe_ratio > 40, nothing if it is 0;
\* +10 if market_cap > 100e9 and conservative, +5 if market_cap < 10e9 and
\* aggressive; the result is not clamped.
C20_Expected(stock, p) ==
    LET beta == stock.beta[1]
        dividend_yield == stock.dividend_yield[1]
        pe_ratio == stock.pe_ratio[1]
        market_cap == stock.market_cap[1]
        risk == p.risk_tolerance
        Add(cond, points) == IF cond THEN points ELSE 0
    IN  50
        + Add(\E s \in p.preferred_sectors : Lower(s) = Lower(stock.sector),
              15)
        + Add(risk = "conservative" /\ beta < 80, 10)
        + Add(risk = "conservative" /\ beta > 120, -10)
        + Add(risk = "conservative" /\ dividend_yield > 2000, 15)
        + Add(risk = "aggressive" /\ beta > 120, 10)
        + Add(risk = "aggressive", 5)
        + Add(risk = "moderate" /\ 80 <= beta /\ beta <= 120, 10)
        + Add(risk = "moderate" /\ dividend_yield > 1500, 10)
        + Add(10 <= pe_ratio /\ pe_ratio <= 25, 10)
        + Add(pe_ratio > 40, -5)
        + Add(market_cap > 100 /\ risk = "conservative", 10)
        + Add(market_cap < 10 /\ risk = "aggressive", 5)

C20_ScoreFormula ==
    (Recommended /\ recommendations.status = "ok"
        /\ profile.risk_tolerance \in RiskTolerances)
    => LET out == recommendations.value
       IN  /\ num_picks >= Len(stock_data)
                 => Len(out) = Cardinality(NonNone)
           /\ \A k \in 1..Len(out) :
                 \E i \in NonNone :
                    /\ stock_data[i].ticker = out[k].ticker
                    /\ stock_data[i].sector = out[k].sector
                    /\ out[k].score = C20_Expected(stock_data[i], profile)

\* C20 witness: a conservative profile and a record of a preferred sector
\* with beta 0.79, yield 2.001%, P/E 10 and a cap of 101e9: every
\* conservative adjustment applies and the score, 110, is above 100.
C20_Witness ==
    /\ Recommended /\ recommendations.status = "ok"
    /\ profile.risk_tolerance = "conservative"
    /\ Len(stock_data) = 1 /\ stock_data[1] # None
    /\ Lower(stock_data[1].sector) = "technology"
    /\ "TECHNOLOGY" \in profile.preferred_sectors
    /\ stock_data[1].beta = <<79>>
    /\ stock_data[1].dividend_yield = <<2001>>
    /\ stock_data[1].pe_ratio = <<10>>
    /\ stock_data[1].market_cap = <<101>>
    /\ Len(recommendations.value) = 1
    /\ recommendations.value[1].score = 110
----------------------------------------------------------------------------
\* Properties of the projector

PcOrder ==
    <<"analyze", "fetch", "recommend", "net_worth", "income", "dividends",
      "portfolio", "readiness", "summary", "done">>

\* the position of a step, 0 for the end of a run that raised
PcIndex(name) ==
    IF \E i \in 1..Len(PcOrder) : PcOrder[i] = name
    THEN CHOOSE i \in 1..Len(PcOrder) : PcOrder[i] = name
    ELSE 0

\* the caller has completed the step named
After(name) == PcIndex(pc) > PcIndex(name)

\* C8 as stated: the reported on_track flag is true iff the reported
\* retirement_net_worth is >= 0.8 times the reported retirement_goal.
C8_Original ==
    (After("readiness") /\ retirement.status = "ok")
    => (retirement.on_track
          <=> 10 * retirement.retirement_net_worth
                >= 8 * retirement.retirement_goal)

\* C8 amended: on_track is decided against 0.8 times the unrounded goal
\* (25 times the retirement expenses), and retirement_goal is reported
\* rounded to cents, so the reported values determine the flag only up to
\* that rounding: on_track implies
\* retirement_net_worth >= 0.8 * retirement_goal - 0.005, and not on_track
\* implies retirement_net_worth < 0.8 * retirement_goal + 0.005 (the
\* amounts compared below are in tenths of a cent).
C8_OnTrackWithinRounding ==
    (After("readiness") /\ retirement.status = "ok")
    => /\ retirement.on_track
            => 10 * retirement.retirement_net_worth
                 >= 8 * retirement.retirement_goal - 5
       /\ ~retirement.on_track
            => 10 * retirement.retirement_net_worth
                 < 8 * retirement.retirement_goal + 5

\* C8 witness: a readiness record that is not on track although its
\* reported net worth reaches 0.8 times its reported goal.
C8_Witness ==
    /\ After("readiness") /\ retirement.status = "ok"
    /\ ~retirement.on_track
    /\ 10 * retirement.retirement_net_worth >= 8 * retirement.retirement_goal

\* C9: retirement_net_worth is the net worth of the projection entry at
\* index years_to_retirement when the list has it and of the last entry
\* when the list is shorter; with a non-empty list and
\* years_to_retirement >= 0 no index is out of range.
C9_RetirementIndexClamped ==
    (After("readiness") /\ Len(net_worth_proj) > 0
                        /\ profile.years_to_retirement >= 0)
    => /\ retirement.status = "ok"
       /\ LET y == profile.years_to_retirement
              n == Len(net_worth_proj)
          IN  retirement.retirement_net_worth =
                 net_worth_proj[IF y < n THEN y + 1 ELSE n].net_worth

\* C9 witness: retirement 31 years away under the default horizon: the
\* projection stops at year 30 and its last entry is the one read.
C9_Witness ==
    /\ After("readiness")
    /\ years = <<>> /\ profile.years_to_retirement = 31
    /\ Len(net_worth_proj) = 31
    /\ retirement.status = "ok"
    /\ retirement.retirement_net_worth = net_worth_proj[31].net_worth
    /\ net_worth_proj[31].year = 30
    /\ net_worth_proj[31].net_worth # net_worth_proj[30].net_worth

\* the horizon C10 states: the years argument when one is given, explicit 0
\* included, and min(years_to_retirement, 30) when none is
C10_Horizon ==
    IF years # <<>> THEN years[1]
    ELSE IF profile.years_to_retirement < 30
    THEN profile.years_to_retirement ELSE 30

C10_Shape(projection) ==
    /\ Len(projection) = C10_Horizon + 1
    /\ \A i \in 0..C10_Horizon :
          /\ projection[i + 1].year = i
          /\ projection[i + 1].age = profile.age + i

\* C10: each of the four projections has exactly horizon + 1 entries, and
\* its entry at list index i has year = i and age = profile.age + i.
C10_ProjectionShape ==
    /\ After("net_worth") => C10_Shape(net_worth_proj)
    /\ After("income") => C10_Shape(income_proj)
    /\ After("dividends") => C10_Shape(dividend_proj)
    /\ After("portfolio") => C10_Shape(portfolio_proj)

\* C10 witness: years = 0 given explicitly for a profile 3 years from
\* retirement: all four projections hold the single entry of year 0.
C10_Witness ==
    /\ After("portfolio")
    /\ years = <<0>> /\ profile.years_to_retirement = 3
    /\ Len(net_worth_proj) = 1 /\ Len(income_proj) = 1
    /\ Len(dividend_proj) = 1 /\ Len(portfolio_proj) = 1
    /\ net_worth_proj[1].year = 0 /\ net_worth_proj[1].age = profile.age

RECURSIVE C11_YieldTotal(_)
\* the recommendations' dividend yields added up
C11_YieldTotal(recs) ==
    IF recs = <<>> THEN 0
    ELSE Head(recs).dividend_yield[1] + C11_YieldTotal(Tail(recs))

\* the yield the dividend projection starts from, in hundredths of a
\* percent: the recommendations' average, 3% when there are none
C11_InitialYieldPct ==
    LET recs == recommendations.value
    IN  IF recs = <<>> THEN 300
        ELSE RoundHalfEven(C11_YieldTotal(recs) * 10000,
                           Len(recs) * YieldScale)

\* C11: the year-0 entry of every projection carries the profile's current
\* values with no growth applied: net worth current_savings - total_debt,
\* annual_income and 12 * monthly_expenses in the net-worth track, the
\* annual income in the income track, current_savings * 0.60 * 0.40 and
\* the initial yield in the dividend track, current_savings and no
\* contributions in the portfolio-return track (money in cents).
C11_YearZeroIsCurrent ==
    /\ After("net_worth")
          => /\ net_worth_proj[1].net_worth
                   = 100 * (profile.current_savings - profile.total_debt)
             /\ net_worth_proj[1].annual_income = 100 * profile.annual_income
             /\ net_worth_proj[1].annual_expenses
                   = 100 * 12 * profile.monthly_expenses
    /\ After("income")
          => income_proj[1].gross_income = 100 * profile.annual_income
    /\ After("dividends")
          => /\ dividend_proj[1].portfolio_value
                   = 24 * profile.current_savings
             /\ dividend_proj[1].dividend_yield = C11_InitialYieldPct
    /\ After("portfolio")
          => /\ portfolio_proj[1].expected_value
                   = 100 * profile.current_savings
             /\ portfolio_proj[1].total_contributions = 0

\* C11 witness: a profile in debt, with income growth, recommendations
\* averaging a 1.25% yield and three years projected: year 0 holds the
\* current values and year 1 differs from it.
C11_Witness ==
    /\ After("portfolio")
    /\ Len(net_worth_proj) = 4
    /\ profile.total_debt > profile.current_savings
    /\ net_worth_proj[1].net_worth < 0
    /\ net_worth_proj[1].annual_income = 100 * profile.annual_income
    /\ net_worth_proj[2].annual_income > net_worth_proj[1].annual_income
    /\ income_proj[2].gross_income > income_proj[1].gross_income
    /\ recommendations.value # <<>>
    /\ dividend_proj[1].dividend_yield = 125
    /\ dividend_proj[2].dividend_yield > 125
    /\ portfolio_proj[1].total_contributions = 0
    /\ portfolio_proj[2].total_contributions > 0

----------------------------------------------------------------------------
\* Properties of the whole request

\* the profile with its risk tolerance replaced by 'moderate'
C12_ModerateTwin == [profile EXCEPT !.risk_tolerance = "moderate"]

\* C12: a profile whose risk_tolerance is none of conservative, moderate and
\* aggressive is handled without error, and its allocation, strategy label,
\* stock scores and net-worth projection are those of the same profile
\* with risk_tolerance 'moderate'.
C12_UnrecognizedIsModerate ==
    (profile.risk_tolerance \notin RiskTolerances
        /\ profile.annual_income > 0 /\ profile.monthly_expenses > 0)
    => /\ ~Raised /\ pc # "raised"
       /\ After("analyze")
             => /\ analysis.status = "ok"
                /\ analysis.recommended_allocation
                      = _determine_allocation(C12_ModerateTwin)
                /\ analysis.investment_strategy
                      = _determine_strategy(C12_ModerateTwin)
       /\ After("recommend")
             => /\ recommendations.status = "ok"
                /\ ScoresOf(recommendations.value)
                      = ScoresOf(generate_stock_recommendations(
                                    C12_ModerateTwin, stock_data,
                                    num_picks).value)
       /\ After("net_worth")
             => net_worth_proj
                   = project_net_worth(C12_ModerateTwin,
                                       analysis.recommended_allocation, years)

\* C12 witness: a 'balanced' profile 16 years from retirement has run to
\* the end: 75% stocks, Moderate Growth, two scored stocks and a 16-year
\* net-worth projection grown at the default 7%.
C12_Witness ==
    /\ pc = "done" /\ ~Raised
    /\ profile.risk_tolerance = "balanced"
    /\ profile.years_to_retirement = 16 /\ years = <<>>
    /\ analysis.recommended_allocation.stocks = 75
    /\ analysis.investment_strategy = ModerateGrowth
    /\ Len(recommendations.value) = 2
    /\ Len(net_worth_proj) = 17
    /\ net_worth_proj[1].net_worth > 0
    /\ net_worth_proj[17].net_worth
          > project_net_worth(
               [profile EXCEPT !.risk_tolerance = "conservative"],
               analysis.recommended_allocation, years)[17].net_worth

\* calling again on the inputs as they are now returns what was returned
C17_SecondCallAgrees ==
    /\ (After("analyze") /\ analysis.status = "ok")
          => analysis.recommended_allocation = _determine_allocation(profile)
    /\ After("recommend")
          => recommendations
                = generate_stock_recommendations(profile, stock_data,
                                                 num_picks)

\* C17: no operation of the request changes the profile, a stock record,
\* the order or contents of the candidate list, the arguments or a field of
\* the advisor; so a second call of _determine_allocation or
\* generate_stock_recommendations on the same inputs returns the same.
C17_InputsNeverModified ==
    /\ [][/\ profile' = profile
          /\ stock_data' = stock_data
          /\ advisor' = advisor
          /\ num_picks' = num_picks
          /\ years' = years]_vars
    /\ []C17_SecondCallAgrees

\* C17 witness: a finished request over a candidate list holding None
\* between two records that were recommended in the opposite order, with an
\* income that grew in the projection and not in the profile.
C17_Witness ==
    /\ pc = "done"
    /\ Len(stock_data) = 3 /\ stock_data[2] = None
    /\ Len(recommendations.value) = 2
    /\ recommendations.value[1].ticker = stock_data[3].ticker
    /\ recommendations.value[2].ticker = stock_data[1].ticker
    /\ Len(income_proj) > 1
    /\ income_proj[Len(income_proj)].gross_income
          > 100 * profile.annual_income
    /\ summary.current_snapshot.annual_income = 100 * profile.annual_income

\* C18: generate_summary reports growth.net_worth_growth as
\* (future - current) / |current| * 100 (to 1 decimal, in tenths of a
\* percent), current being the year-0 net worth and future the net worth at
\* index min(10, horizon) of the net-worth projection, and 0 whenever the
\* year-0 net worth is 0; the readiness record is embedded unchanged as
\* retirement_outlook.
C18_SummaryGrowth ==
    (pc = "done" /\ ~Raised)
    => LET horizon == Len(net_worth_proj) - 1
           ahead == IF horizon < 10 THEN horizon ELSE 10
           current == net_worth_proj[1].net_worth
           future == net_worth_proj[ahead + 1].net_worth
           growth == summary.growth.net_worth_growth
       IN  /\ summary.status = "ok"
           /\ summary.future_projection.years_ahead = ahead
           /\ summary.future_projection.net_worth = future
           /\ current = 0 => growth = 0
           /\ current # 0
                 => 2 * Abs(growth * Abs(current) - 1000 * (future - current))
                       <= Abs(current)
           /\ summary.retirement_outlook = retirement

\* C18 witness: savings equal to the debt and 16 years projected: the
\* year-0 net worth is 0, the future one is read at year 10 and is not 0,
\* and the growth reported is 0.
C18_Witness ==
    /\ pc = "done" /\ summary.status = "ok"
    /\ Len(net_worth_proj) = 17
    /\ net_worth_proj[1].net_worth = 0
    /\ summary.future_projection.years_ahead = 10
    /\ summary.future_projection.net_worth = net_worth_proj[11].net_worth
    /\ net_worth_proj[11].net_worth > 0
    /\ net_worth_proj[17].net_worth > net_worth_proj[11].net_worth
    /\ summary.growth.net_worth_growth = 0
    /\ summary.retirement_outlook = retirement

----------------------------------------------------------------------------
\* Properties of the projections' recurrences

RECURSIVE Pow(_, _)
Pow(b, n) == IF n = 0 THEN 1 ELSE b * Pow(b, n - 1)

\* x can still be multiplied by a factor below 110 and added to another
\* such product
Fits(x) == Abs(x) <= 9000000

\* the cents round(x, 2) gives for the exact value x / 100^n dollars
ExactCents(x, n) ==
    IF n = 0 THEN 100 * x ELSE RoundHalfEven(x, Pow(100, n - 1))

\* the return rate C21 names for the profile's risk tolerance, in percent
C21_Rate ==
    IF profile.risk_tolerance = "conservative" THEN 5
    ELSE IF profile.risk_tolerance = "moderate" THEN 7 ELSE 9

RECURSIVE C21_Exact(_)
\* the recurrence of C21 in exact arithmetic: the values of year n as
\* integer counts of 1/100^n dollar, ok as long as the integers fit
C21_Exact(n) ==
    IF n = 0
    THEN [ok |-> TRUE,
          income |-> profile.annual_income,
          expenses |-> 12 * profile.monthly_expenses,
          savings |-> profile.annual_income - 12 * profile.monthly_expenses,
          net_worth |-> profile.current_savings - profile.total_debt]
    ELSE LET prev == C21_Exact(n - 1)
         IN  IF ~prev.ok \/ ~Fits(prev.income) \/ ~Fits(prev.expenses)
                \/ ~Fits(prev.net_worth)
             THEN [ok |-> FALSE]
             ELSE LET income ==
                          prev.income * (100 + profile.expected_income_growth)
                      expenses == prev.expenses * 103
                  IN  [ok |-> TRUE,
                       income |-> income,
                       expenses |-> expenses,
                       savings |-> income - expenses,
                       net_worth |-> prev.net_worth * (100 + C21_Rate)
                                       + (income - expenses)]

\* C21: project_net_worth follows the recurrence income_n = income_{n-1} *
\* (1 + expected_income_growth/100), expenses_n = expenses_{n-1} * 1.03,
\* savings_n = income_n - expenses_n, net_worth_n = net_worth_{n-1} * (1 + r)
\* + savings_n with r = 0.05/0.07/0.09 for conservative/moderate/aggressive,
\* the return being earned on the previous year's net worth; the
\* recurrence runs on unrounded values and only the emitted entries are
\* rounded.  Stated twice: every entry is the exact value of the recurrence
\* rounded to cents (as far as the exact integers fit), and every two
\* adjacent entries satisfy the recurrence up to the rounding of the
\* entries.
C21_NetWorthRecurrence ==
    (After("net_worth") /\ profile.risk_tolerance \in RiskTolerances)
    => \A n \in 0..Len(net_worth_proj) - 1 :
          LET e == net_worth_proj[n + 1]
              g == profile.expected_income_growth
          IN  /\ e.year = n
              /\ C21_Exact(n).ok
                    => /\ e.annual_income = ExactCents(C21_Exact(n).income, n)
                       /\ e.annual_expenses
                             = ExactCents(C21_Exact(n).expenses, n)
                       /\ e.annual_savings
                             = ExactCents(C21_Exact(n).savings, n)
                       /\ e.net_worth = ExactCents(C21_Exact(n).net_worth, n)
              /\ n >= 1
                    => LET d == net_worth_proj[n]
                       IN  /\ Abs(100 * e.annual_income
                                    - (100 + g) * d.annual_income) <= 100 + g
                           /\ Abs(100 * e.annual_expenses
                                    - 103 * d.annual_expenses) <= 103
                           /\ Abs(e.annual_savings - (e.annual_income
                                    - e.annual_expenses)) <= 1
                           /\ Abs(100 * e.net_worth
                                    - (100 + C21_Rate) * d.net_worth
                                    - 100 * e.annual_savings) <= 200

\* C21 witness: three years projected for an aggressive profile with
\* income growth: the year-3 entry is the exact value rounded (its income
\* is not what growing the rounded year-2 income would give), and the
\* return of year 1 is 9% of the year-0 net worth.
C21_Witness ==
    /\ After("net_worth") /\ profile.risk_tolerance = "aggressive"
    /\ profile.expected_income_growth = 3
    /\ Len(net_worth_proj) = 4
    /\ C21_Exact(3).ok
    /\ net_worth_proj[4].net_worth = ExactCents(C21_Exact(3).net_worth, 3)
    /\ net_worth_proj[4].annual_income
          # RoundHalfEven(103 * net_worth_proj[3].annual_income, 100)
    /\ net_worth_proj[1].net_worth > 0
    /\ 100 * net_worth_proj[2].net_worth
          = 109 * net_worth_proj[1].net_worth
            + 100 * net_worth_proj[2].annual_savings

RECURSIVE C22_Exact(_)
\* annual_income * (1 + expected_income_growth/100)^n as an integer count
\* of 1/100^n dollar, ok as long as the integer fits
C22_Exact(n) ==
    IF n = 0 THEN [ok |-> TRUE, income |-> profile.annual_income]
    ELSE LET prev == C22_Exact(n - 1)
         IN  IF ~prev.ok \/ ~Fits(prev.income) THEN [ok |-> FALSE]
             ELSE [ok |-> TRUE,
                   income |->
                      prev.income * (100 + profile.expected_income_growth)]

C23_YieldOf(rec) ==
    IF "dividend_yield" \in DOMAIN rec THEN rec.dividend_yield[1] ELSE 3000

RECURSIVE C23_Total(_)
C23_Total(recs) ==
    IF recs = <<>> THEN 0 ELSE C23_YieldOf(Head(recs)) + C23_Total(Tail(recs))

\* y0: the mean of the recommendations' yields, flat 0.03 for an empty list
\* (in 1/FineYield)
C23_Y0 ==
    LET recs == recommendations.value
    IN  IF recs = <<>> THEN 30000000
        ELSE RoundHalfEven(10000 * C23_Total(recs), Len(recs))

RECURSIVE C23_YieldInForce(_)
\* y0 for years 0 and 1, y0 * 1.05^(n-1) for year n >= 1
C23_YieldInForce(n) ==
    IF n <= 1 THEN C23_Y0 ELSE MulDiv(C23_YieldInForce(n - 1), 105, 100)

\* C23: project_dividends starts from the yield y0, the mean of the
\* recommendations' dividend_yield with 0.03 counted for a recommendation
\* without one and flat 0.03 for an empty list, and from a contribution
\* c = (annual_income - 12 * monthly_expenses) * 0.60 * 0.40 that is the
\* same in every year; portfolio_value_n = portfolio_value_{n-1} * 1.07 + c
\* for n >= 1, and the year's annual_dividend is portfolio_value_n times
\* the yield in force before that year's 5% step: portfolio_value_0 * y0 in
\* year 0 and portfolio_value_n * y0 * 1.05^(n-1) in year n >= 1 (emitted
\* values in cents, each relation up to the rounding of the entries).
C23_DividendRecurrence ==
    After("dividends")
    => \A n \in 0..Len(dividend_proj) - 1 :
          LET e == dividend_proj[n + 1]
              c == 24 * (profile.annual_income - 12 * profile.monthly_expenses)
          IN  /\ e.year = n
              /\ n = 0 => e.portfolio_value = 24 * profile.current_savings
              /\ n >= 1
                    => Abs(100 * e.portfolio_value
                             - 107 * dividend_proj[n].portfolio_value
                             - 100 * c) <= 104
              /\ Abs(e.annual_dividend
                       - MulYield(e.portfolio_value, C23_YieldInForce(n))) <= 1

\* C23 witness: two recommendations, one without a dividend_yield and one
\* yielding 2.5%, so y0 = 2.75%; savings of 500, income 171 and expenses of
\* 4 a month: portfolio values 120.00, 157.92 and 198.49, dividends 3.30
\* and 4.34 at y0 in years 0 and 1 and 5.73 at y0 * 1.05 in year 2.
C23_Witness ==
    /\ After("dividends")
    /\ Len(recommendations.value) = 2
    /\ "dividend_yield" \notin DOMAIN recommendations.value[1]
    /\ recommendations.value[2].dividend_yield = <<2500>>
    /\ Len(dividend_proj) >= 3
    /\ dividend_proj[1].portfolio_value = 12000
    /\ dividend_proj[1].annual_dividend = 330
    /\ dividend_proj[2].portfolio_value = 15792
    /\ dividend_proj[2].annual_dividend = 434
    /\ dividend_proj[3].portfolio_value = 19849
    /\ dividend_proj[3].annual_dividend = 573

RECURSIVE C25_Inflated(_, _)
\* x * 1.03^n at the resolution of unrounded money
C25_Inflated(x, n) ==
    IF n = 0 THEN x ELSE MulDiv(C25_Inflated(x, n - 1), 103, 100)

\* monthly_expenses * 12 * 0.80 * 1.03^years_to_retirement, unrounded
C25_Expenses ==
    C25_Inflated(profile.monthly_expenses * 96 * (Scale \div 10),
                 profile.years_to_retirement)

----------------------------------------------------------------------------
\* Properties of the ticker loop

\* what the first n fetches have appended: the records of the tickers that
\* did not fail, in the order fetched
C26_Live(n) ==
    LET Available(t) == t \notin fetch.unavailable
        tickers == SelectSeq(SubSeq(fetch.all_stocks, 1, n), Available)
    IN  [i \in 1..Len(tickers) |-> get_stock_info(tickers[i], {})]

\* how many of the first n fetches have failed
C26_Failed(n) ==
    Cardinality({i \in 1..n : fetch.all_stocks[i] \in fetch.unavailable})

\* C26: the loop fetches at most 30 tickers one after another; a ticker
\* whose fetch fails is never appended to stock_data and adds one to
\* fetch_errors; after the loop the candidate list handed to
\* generate_stock_recommendations is the fallback set iff nothing was
\* fetched or fetch_errors > 10, and otherwise exactly the records fetched,
\* so the scorer receives no None entry and no mix of live and fallback
\* records.
C26_FetchThenFallback ==
    LET n == fetch.position
        total == Min(30, Len(fetch.all_stocks))
        fallback == get_fallback_stock_data
    IN  /\ pc = "fetch"
           => /\ n <= total
              /\ stock_data = C26_Live(n)
              /\ fetch.fetch_errors = C26_Failed(n)
              /\ Len(stock_data) + fetch.fetch_errors = n
        /\ (fetch # NoFetch /\ pc # "fetch")
           => /\ n = total
              /\ fetch.fetch_errors = C26_Failed(total)
              /\ (stock_data = fallback)
                 <=> (C26_Live(total) = <<>> \/ fetch.fetch_errors > 10)
              /\ stock_data # fallback => stock_data = C26_Live(total)
              /\ \A i \in 1..Len(stock_data) : stock_data[i] # None
              /\ \/ Range(stock_data) \subseteq Range(fallback)
                 \/ Range(stock_data) \cap Range(fallback) = {}
              /\ pc # "recommend" => recommendations.status = "ok"

\* 32 tickers listed, 30 fetched, exactly 10 of them failed: the 20 live
\* records were scored
C26_Witness ==
    /\ pc = "net_worth"
    /\ Len(fetch.all_stocks) > 30
    /\ fetch.position = 30
    /\ fetch.fetch_errors = 10
    /\ Len(stock_data) = 20
    /\ stock_data = C26_Live(30)
    /\ recommendations.status = "ok"

----------------------------------------------------------------------------
\* Properties of the score's range

\* C27: for every complete stock record and every profile _score_stock
\* returns a value from 35 to 110, so the filter score > 0 never drops a
\* record: the call returns min(num_picks, number of non-None records)
\* entries, and with num_picks at least the number of non-None records every
\* non-None input record appears in the output, as often as in the input.
C27_ScoreRangeKeepsEveryRecord ==
    (Recommended /\ num_picks >= 0)
    => /\ recommendations.status = "ok"
       /\ \A i \in NonNone :
             /\ _score_stock(stock_data[i], profile) >= 35
             /\ _score_stock(stock_data[i], profile) <= 110
       /\ LET out == recommendations.value
              Listed(ticker) ==
                  Cardinality({j \in 1..Len(out) : out[j].ticker = ticker})
              Given(ticker) ==
                  Cardinality({i \in NonNone : stock_data[i].ticker = ticker})
          IN  /\ \A j \in 1..Len(out) : out[j].score \in 35..110
              /\ Len(out) = Min(num_picks, Cardinality(NonNone))
              /\ num_picks >= Cardinality(NonNone)
                 => \A i \in NonNone :
                       Listed(stock_data[i].ticker)
                       = Given(stock_data[i].ticker)

\* a conservative profile, a None entry between the record scored 35 and the
\* record scored 110: both are returned
C27_Witness ==
    /\ pc = "net_worth"
    /\ profile.risk_tolerance = "conservative"
    /\ stock_data = <<Stock("LOW", "Energy", 121, 0, 41, 100), None,
                      Stock("TOP", "Technology", 79, 2001, 25, 101)>>
    /\ num_picks = 2
    /\ recommendations.status = "ok"
    /\ Len(recommendations.value) = 2
    /\ recommendations.value[1].ticker = "TOP"
    /\ recommendations.value[1].score = 110
    /\ recommendations.value[2].ticker = "LOW"
    /\ recommendations.value[2].score = 35

----------------------------------------------------------------------------
\* Properties of the reported dividend yield

\* C28: the entry of year 0 reports the yield its annual_dividend was
\* computed with, 100 * y0; the entry of a year n >= 1 reports 1.05 times
\* the yield its annual_dividend was computed with, 100 * y0 * 1.05^n
\* against a dividend of portfolio_value_n * y0 * 1.05^(n-1), so that the
\* dividends of years 0 and 1 are both computed with y0 while the reported
\* yield has already grown in year 1 (dividend_yield in hundredths of a
\* percent, money in cents).
C28_ReportedYieldRunsAhead ==
    After("dividends")
    => \A n \in 0..Len(dividend_proj) - 1 :
          LET e == dividend_proj[n + 1]
              used == C23_YieldInForce(n)
          IN  /\ Abs(e.annual_dividend - MulYield(e.portfolio_value, used))
                 <= 1
              /\ n = 0 => e.dividend_yield = RoundHalfEven(used, 100000)
              /\ n >= 1
                 => /\ e.dividend_yield
                       = RoundHalfEven(MulDiv(used, 105, 100), 100000)
                    /\ Abs(100 * e.dividend_yield
                             - 105 * dividend_proj[n].dividend_yield) <= 103
              /\ n = 1
                 => /\ Abs(e.annual_dividend
                             - MulYield(e.portfolio_value, C23_Y0)) <= 1
                    /\ Abs(100 * e.dividend_yield
                             - 105 * RoundHalfEven(C23_Y0, 100000)) <= 103

\* y0 = 2.75%: year 0 reports 2.75 and pays 3.30 on 120.00; year 1 reports
\* 2.89 and pays 4.34 on 157.92, which is 2.75%; year 2 reports 3.03 and
\* pays 5.73 on 198.49, which is 2.8875%
C28_Witness ==
    /\ After("dividends")
    /\ Len(dividend_proj) >= 3
    /\ C23_Y0 = 27500000
    /\ dividend_proj[1].dividend_yield = 275
    /\ dividend_proj[1].portfolio_value = 12000
    /\ dividend_proj[1].annual_dividend = 330
    /\ dividend_proj[2].dividend_yield = 289
    /\ dividend_proj[2].portfolio_value = 15792
    /\ dividend_proj[2].annual_dividend = 434
    /\ dividend_proj[3].dividend_yield = 303
    /\ dividend_proj[3].portfolio_value = 19849
    /\ dividend_proj[3].annual_dividend = 573

----------------------------------------------------------------------------
\* Properties of the net-worth projection's arguments

\* the allocations of the specification, and all in bonds and all in stocks
C29_AnyAllocation ==
    Allocations
    \cup {[stocks |-> s, bonds |-> BondPercentage(s),
           breakdown |-> Breakdown(s)] : s \in {0, 100}}

====
